---------------------------- MODULE Spec2Model ----------------------------
(***************************************************************************)
(* Road-data acquisition layer of the Wandsworth street map.               *)
(*                                                                         *)
(*   server/storage.ts   MemStorage.getRoadsByBounds: the road cache, the  *)
(*                       Overpass request and the parsing of its answer;   *)
(*                       the highlight store.                              *)
(*   server/routes.ts    the routes over both.                             *)
(*   client/src/hooks/useMapData.ts and src/hooks/useMapData.ts            *)
(*                       useRoadsByBounds: debounce, containment check and *)
(*                       rate limit of viewport changes.                   *)
(*                                                                         *)
(* Numbers.  Coordinates are integers in millidegrees (51.455 is 51455).   *)
(* Cache keys hold the two-decimal numerals of toFixed(2) as integers in   *)
(* centidegrees ("51.46" is 5146).  Lengths are whole metres, added with   *)
(* the rounding of a short significand (MantissaBits).  Times of the       *)
(* client hook are in ticks of DebounceMs milliseconds, times of the       *)
(* server in milliseconds, in steps of FetchTimeoutMs.                     *)
(*                                                                         *)
(* Specifications.  Spec: getRoadsByBounds called directly, any answer.    *)
(* SpecRoads: the same behind GET /api/roads, with time.  SpecWorld: the   *)
(* same over map data that does not change.  SpecHook: the client hook.    *)
(* SpecHighlights: the highlight store and its routes.  SpecPure: the pure *)
(* functions applied to arguments of their own.                            *)
(*                                                                         *)
(* The request boxes below avoid the two places where binary floating      *)
(* point departs from decimal arithmetic: a coordinate whose third decimal *)
(* is 5 (a tie of toFixed(2)) and a coordinate lying exactly 0.01 degree   *)
(* outside a cached key (51.44 >= 51.45 - 0.01 is false in IEEE doubles).  *)
(***************************************************************************)
EXTENDS Integers, Sequences, FiniteSets, TLC

(***************************************************************************)
(* Bounds of the model.                                                    *)
(***************************************************************************)
MaxCalls == 3
MaxInFlight == 2
MaxEvents == 5
MaxLate == 1

MaxSaves == 3

\* the longest coordinate list calculateRoadLength is applied to
MaxPoints == 4

\* the bits of the significand of a length
MantissaBits == 10

FetchTimeoutMs == 15000

Slots == 1..MaxInFlight

Abs(x) == IF x < 0 THEN -x ELSE x

NoCall == [n |-> 0]

(***************************************************************************)
(* Inputs of getRoadsByBounds: boxes [swLat, swLng, neLat, neLng].         *)
(*   BoxScenario  the box of the specification's scenario, key             *)
(*                51.45,-0.20,51.46,-0.19                                  *)
(*   BoxSameKey   other coordinates that round to the same key             *)
(*   BoxInside    key 51.44,-0.21,51.47,-0.18; within 0.01 of the above    *)
(*   BoxOutside   the same key as BoxInside, but its south edge 51.436 is  *)
(*                more than 0.01 below 51.45                               *)
(*   BoxBorough   the borough; it spans more than 0.05 degree              *)
(***************************************************************************)
BoxScenario == [swLat |-> 51450, swLng |-> -200, neLat |-> 51460, neLng |-> -190]
BoxSameKey  == [swLat |-> 51449, swLng |-> -201, neLat |-> 51459, neLng |-> -191]
BoxInside   == [swLat |-> 51442, swLng |-> -208, neLat |-> 51468, neLng |-> -182]
BoxOutside  == [swLat |-> 51436, swLng |-> -208, neLat |-> 51468, neLng |-> -182]
BoxBorough  == [swLat |-> 51414, swLng |-> -302, neLat |-> 51501, neLng |-> -83]

ReqBoxes == {BoxScenario, BoxSameKey, BoxInside, BoxOutside, BoxBorough}

(***************************************************************************)
(* Answers of the Overpass service: the elements array of the JSON body.   *)
(* A missing tag is the empty string (falsy in the source as well).        *)
(***************************************************************************)
Node(i, la, lo) ==
    [type |-> "node", id |-> i, lat |-> la, lon |-> lo,
     nodes |-> <<>>, hasTags |-> FALSE, highway |-> "", name |-> ""]

Way(i, ns, hw, nm) ==
    [type |-> "way", id |-> i, lat |-> 0, lon |-> 0,
     nodes |-> ns, hasTags |-> TRUE, highway |-> hw, name |-> nm]

UntaggedWay(i, ns) ==
    [type |-> "way", id |-> i, lat |-> 0, lon |-> 0,
     nodes |-> ns, hasTags |-> FALSE, highway |-> "", name |-> ""]

DataEmpty == <<>>

DataOne ==
    << Node(1, 51455, -195), Node(2, 51457, -193),
       Way(10, <<1, 2>>, "secondary", "Garratt Lane") >>

DataMixed ==
    << Way(11, <<2, 9, 3>>, "residential", ""),
       Node(1, 51455, -195), Node(2, 51457, -193), Node(3, 51462, -188),
       Way(10, <<1, 2>>, "secondary", "Garratt Lane"),
       Way(12, <<1, 3>>, "", "Towpath"),
       Way(13, <<8, 9>>, "primary", "Trinity Road"),
       UntaggedWay(14, <<1, 2>>),
       Way(15, <<3>>, "bridleway", "The Ride") >>

Responses == {DataEmpty, DataOne, DataMixed}

FailureKinds == {"network", "abort", "status", "json", "shape"}

(***************************************************************************)
(* calculateDistance: the Haversine distance of the source, in metres,     *)
(* tabulated for the node coordinates that occur in Responses.             *)
(***************************************************************************)
calculateDistance(lat1, lon1, lat2, lon2) ==
    LET p == <<lat1, lon1>>
        q == <<lat2, lon2>>
        A == <<51455, -195>>
        B == <<51457, -193>>
        C == <<51462, -188>>
    IN  IF p = q THEN 0
        ELSE IF {p, q} = {A, B} THEN 262
        ELSE IF {p, q} = {A, C} THEN 917
        ELSE IF {p, q} = {B, C} THEN 655
        ELSE 0

(***************************************************************************)
(* The numbers of the source are binary floating-point numbers, and `+'    *)
(* rounds its result to the nearest one, a tie to the one with the even    *)
(* significand.  Here a length is a whole number of metres held in a       *)
(* significand of MantissaBits bits (IEEE doubles have 53): every whole    *)
(* number below 2^MantissaBits is a value, above it every second one, then *)
(* every fourth, and so on.                                                *)
(***************************************************************************)
RECURSIVE Spacing(_)
Spacing(x) ==
    \* the distance of neighbouring values at the magnitude of x
    IF x < 2 ^ MantissaBits THEN 1 ELSE 2 * Spacing(x \div 2)

RoundToNearest(x) ==
    LET q == Spacing(x)
        below == (x \div q) * q
        rest == x - below
    IN  IF 2 * rest < q THEN below
        ELSE IF 2 * rest > q THEN below + q
        ELSE IF (below \div q) % 2 = 0 THEN below ELSE below + q

FloatAdd(x, y) == RoundToNearest(x + y)

RECURSIVE calculateRoadLengthLoop(_, _)
calculateRoadLengthLoop(coordinates, n) ==
    \* the value of length after n rounds of the loop (lines 32-36)
    IF n = 0 THEN 0
    ELSE FloatAdd(calculateRoadLengthLoop(coordinates, n - 1),
                  calculateDistance(coordinates[n][1], coordinates[n][2],
                                    coordinates[n + 1][1],
                                    coordinates[n + 1][2]))

calculateRoadLengthSkippingLast(coordinates) ==
    \* a variant whose loop stops one pair early
    IF Len(coordinates) < 3 THEN 0
    ELSE calculateRoadLengthLoop(coordinates, Len(coordinates) - 2)

calculateRoadLength(coordinates) ==
    IF Len(coordinates) < 2 THEN 0
    ELSE calculateRoadLengthLoop(coordinates, Len(coordinates) - 1)

getRoadTypeFoldingCase(highwayType) ==
    \* a variant that also accepts capitalised spellings
    CASE highwayType \in {"motorway", "trunk", "Motorway", "MOTORWAY"} ->
            "Motorway"
      [] highwayType \in {"primary", "Primary"} -> "Primary"
      [] highwayType = "secondary" -> "Secondary"
      [] highwayType = "tertiary" -> "Tertiary"
      [] highwayType = "residential" -> "Residential"
      [] highwayType = "service" -> "Service"
      [] highwayType \in {"footway", "path", "cycleway", "Path"} -> "Path"
      [] OTHER -> "Other"

getRoadType(highwayType) ==
    CASE highwayType \in {"motorway", "trunk"} -> "Motorway"
      [] highwayType = "primary" -> "Primary"
      [] highwayType = "secondary" -> "Secondary"
      [] highwayType = "tertiary" -> "Tertiary"
      [] highwayType = "residential" -> "Residential"
      [] highwayType = "service" -> "Service"
      [] highwayType \in {"footway", "path", "cycleway"} -> "Path"
      [] OTHER -> "Other"

(***************************************************************************)
(* The parsing of an answer (storage.ts 165-204).                          *)
(***************************************************************************)
RECURSIVE NodeTable(_, _)
NodeTable(elements, i) ==
    \* nodes.set(element.id, [lat, lon]) for every node, later ones winning
    IF i = 0 THEN [x \in {} |-> <<0, 0>>]
    ELSE LET rest == NodeTable(elements, i - 1)
             e == elements[i]
         IN  IF e.type = "node"
             THEN [x \in DOMAIN rest \cup {e.id} |->
                      IF x = e.id THEN <<e.lat, e.lon>> ELSE rest[x]]
             ELSE rest

RECURSIVE ResolveNodes(_, _, _)
ResolveNodes(nodeIds, nodes, i) ==
    IF i > Len(nodeIds) THEN <<>>
    ELSE (IF nodeIds[i] \in DOMAIN nodes THEN <<nodes[nodeIds[i]]>> ELSE <<>>)
         \o ResolveNodes(nodeIds, nodes, i + 1)

KeepsWayWithoutCoordinates(e, coordinates) ==
    \* a variant without the test of line 192
    e.type = "way" /\ e.hasTags /\ e.highway # ""

KeepsWay(e, coordinates) ==
    \* the tests of lines 175 and 192
    e.type = "way" /\ e.hasTags /\ e.highway # "" /\ Len(coordinates) > 0

RECURSIVE ParseWays(_, _, _)
ParseWays(elements, nodes, i) ==
    IF i > Len(elements) THEN <<>>
    ELSE LET e == elements[i]
             coordinates == ResolveNodes(e.nodes, nodes, 1)
             road == [id |-> <<"road", e.id>>,
                      osmId |-> <<"way", e.id>>,
                      name |-> IF e.name = "" THEN "Unnamed Road" ELSE e.name,
                      roadType |-> getRoadType(e.highway),
                      length |-> calculateRoadLength(coordinates),
                      coordinates |-> coordinates]
         IN  (IF KeepsWay(e, coordinates) THEN <<road>> ELSE <<>>)
             \o ParseWays(elements, nodes, i + 1)

ParseRoads(elements) ==
    ParseWays(elements, NodeTable(elements, Len(elements)), 1)

(***************************************************************************)
(* The cache key (storage.ts 80) and its parsing (storage.ts 92).          *)
(***************************************************************************)
toFixed2Truncating(x) ==
    \* a variant that cuts the third decimal off instead of rounding
    IF x < 0 THEN -((-x) \div 10) ELSE x \div 10

toFixed2(x) ==
    \* the numeral with two decimals nearest to x, as centidegrees
    IF x < 0 THEN -(((-x) + 5) \div 10) ELSE (x + 5) \div 10

parseFloat(c) == c * 10

CacheKeyOf(box) ==
    <<toFixed2(box.swLat), toFixed2(box.swLng),
      toFixed2(box.neLat), toFixed2(box.neLng)>>

(***************************************************************************)
(* roadCache is a Map: a sequence of entries in insertion order.           *)
(***************************************************************************)
CacheKeys(cache) == {cache[i].key : i \in 1..Len(cache)}

CacheHas(cache, k) == k \in CacheKeys(cache)

CacheGet(cache, k) ==
    cache[CHOOSE i \in 1..Len(cache) : cache[i].key = k].roads

CacheSetDropped(cache, k, roads) ==
    \* a variant that forgets to store
    cache

CacheSet(cache, k, roads) ==
    IF CacheHas(cache, k)
    THEN [i \in 1..Len(cache) |->
            IF cache[i].key = k THEN [key |-> k, roads |-> roads] ELSE cache[i]]
    ELSE Append(cache, [key |-> k, roads |-> roads])

WithinCachedNoMargin(box, cachedKey) ==
    \* a variant without the 0.01 degree margin
    /\ box.swLat >= parseFloat(cachedKey[1])
    /\ box.swLng >= parseFloat(cachedKey[2])
    /\ box.neLat <= parseFloat(cachedKey[3])
    /\ box.neLng <= parseFloat(cachedKey[4])

WithinCached(box, cachedKey) ==
    \* storage.ts 96-101
    /\ box.swLat >= parseFloat(cachedKey[1]) - 10
    /\ box.swLng >= parseFloat(cachedKey[2]) - 10
    /\ box.neLat <= parseFloat(cachedKey[3]) + 10
    /\ box.neLng <= parseFloat(cachedKey[4]) + 10

OverlapIndexes(cache, box) ==
    {i \in 1..Len(cache) : WithinCached(box, cache[i].key)}

Min(S) == CHOOSE x \in S : \A y \in S : x <= y

CacheLookupOverlapFirst(cache, box) ==
    \* a variant that scans for a containing entry before the exact key
    LET k == CacheKeyOf(box)
        hits == OverlapIndexes(cache, box)
    IN  IF hits # {}
        THEN [path |-> "overlap", roads |-> cache[Min(hits)].roads]
        ELSE IF CacheHas(cache, k)
        THEN [path |-> "exact", roads |-> CacheGet(cache, k)]
        ELSE [path |-> "miss", roads |-> <<>>]

CacheLookup(cache, box) ==
    \* storage.ts 83-105: the exact key first, then the first entry, in
    \* insertion order, whose box contains the request
    LET k == CacheKeyOf(box)
        hits == OverlapIndexes(cache, box)
    IN  IF CacheHas(cache, k)
        THEN [path |-> "exact", roads |-> CacheGet(cache, k)]
        ELSE IF hits # {}
        THEN [path |-> "overlap", roads |-> cache[Min(hits)].roads]
        ELSE [path |-> "miss", roads |-> <<>>]

ExpandedQueryBox(box) ==
    \* storage.ts 113-116
    [swLat |-> box.swLat - 10, swLng |-> box.swLng - 10,
     neLat |-> box.neLat + 10, neLng |-> box.neLng + 10]

FetchOnlyMajorRoadsBySpan(cache, box) ==
    \* a variant that looks at the span of the box only
    LET e == ExpandedQueryBox(box)
    IN  e.neLat - e.swLat > 50 \/ e.neLng - e.swLng > 50

FetchOnlyMajorRoads(cache, box) ==
    \* storage.ts 120-121
    LET e == ExpandedQueryBox(box)
    IN  Len(cache) = 0 \/ (e.neLat - e.swLat > 50 \/ e.neLng - e.swLng > 50)

(***************************************************************************)
(* The client hook: viewport boxes, expandBounds, isWithinExistingBounds.  *)
(*   ViewBorough  the borough as first shown                               *)
(*   ViewEast     panned east: inside the 100%-expansion of ViewBorough,   *)
(*                east of its 50%-expansion                                *)
(*   ViewWest     west of both; the hook counts ViewBorough as inside      *)
(*                the 100%-expansion of ViewWest although its east edge    *)
(*                lies outside                                             *)
(* The hook is run with bounds null once, on mount (HookInit); the page    *)
(* never goes back to null afterwards.                                     *)
(* The spans are even, so that the 50% buffer is a whole number, and no    *)
(* edge lies exactly on a limit of isWithinExistingBounds, where the       *)
(* double 1 - 0.8 = 0.19999999999999996 would decide.                      *)
(***************************************************************************)
None == [none |-> TRUE]

ViewBorough == [swLat |-> 51410, swLng |-> -300, neLat |-> 51500, neLng |-> -100]
ViewEast    == [swLat |-> 51410, swLng |-> -150, neLat |-> 51500, neLng |-> 50]
ViewWest    == [swLat |-> 51410, swLng |-> -520, neLat |-> 51500, neLng |-> -320]

RawBounds == {ViewBorough, ViewEast, ViewWest}

DebounceMs == 500
RateWindowMs == 10000
RateLimit == 3

\* the unit of time is the debounce delay
Ticks(ms) == ms \div DebounceMs

Debounce == Ticks(DebounceMs)
RateWindow == Ticks(RateWindowMs)
DefaultTolerance == 80

expandBoundsNorthEast(bounds, bufferPercent) ==
    \* a variant that moves the north and east edges only
    IF bounds = None THEN None
    ELSE LET latDiff == bounds.neLat - bounds.swLat
             lngDiff == bounds.neLng - bounds.swLng
             latBuffer == (latDiff * bufferPercent) \div 100
             lngBuffer == (lngDiff * bufferPercent) \div 100
         IN  [swLat |-> bounds.swLat,
              swLng |-> bounds.swLng,
              neLat |-> bounds.neLat + latBuffer,
              neLng |-> bounds.neLng + lngBuffer]

expandBounds(bounds, bufferPercent) ==
    IF bounds = None THEN None
    ELSE LET latDiff == bounds.neLat - bounds.swLat
             lngDiff == bounds.neLng - bounds.swLng
             latBuffer == (latDiff * bufferPercent) \div 100
             lngBuffer == (lngDiff * bufferPercent) \div 100
         IN  [swLat |-> bounds.swLat - latBuffer,
              swLng |-> bounds.swLng - lngBuffer,
              neLat |-> bounds.neLat + latBuffer,
              neLng |-> bounds.neLng + lngBuffer]

isWithinExistingBoundsExactly(newBounds, existingBounds, tolerance) ==
    \* a variant that tests geometric containment, without the slack
    IF newBounds = None \/ existingBounds = None THEN FALSE
    ELSE /\ newBounds.swLat >= existingBounds.swLat
         /\ newBounds.swLng >= existingBounds.swLng
         /\ newBounds.neLat <= existingBounds.neLat
         /\ newBounds.neLng <= existingBounds.neLng

isWithinExistingBounds(newBounds, existingBounds, tolerance) ==
    \* tolerance in percent; both sides of each comparison are times 100
    IF newBounds = None \/ existingBounds = None THEN FALSE
    ELSE /\ 100 * newBounds.swLat >=
              100 * existingBounds.swLat - Abs(existingBounds.swLat * (100 - tolerance))
         /\ 100 * newBounds.swLng >=
              100 * existingBounds.swLng - Abs(existingBounds.swLng * (100 - tolerance))
         /\ 100 * newBounds.neLat <=
              100 * existingBounds.neLat + Abs(existingBounds.neLat * (100 - tolerance))
         /\ 100 * newBounds.neLng <=
              100 * existingBounds.neLng + Abs(existingBounds.neLng * (100 - tolerance))

DebounceTimeUnlimited(initialLoad, queryCount, timeSinceLastQuery) ==
    \* a variant without the rate limit
    IF initialLoad THEN 0 ELSE Debounce

DebounceTime(initialLoad, queryCount, timeSinceLastQuery) ==
    \* lines 77-87
    IF queryCount >= RateLimit /\ timeSinceLastQuery < RateWindow
    THEN RateWindow - timeSinceLastQuery + Debounce
    ELSE IF initialLoad THEN 0 ELSE Debounce

BufferSizeAlwaysFull(initialLoad) ==
    \* a variant that doubles the box on the first load as well
    100

BufferSize(initialLoad) == IF initialLoad THEN 50 ELSE 100

\* sequences of ticks: timers running down, ages growing
RECURSIVE Shifted(_, _)
Shifted(seq, d) ==
    IF seq = <<>> THEN <<>> ELSE <<Head(seq) + d>> \o Shifted(Tail(seq), d)

RECURSIVE Recent(_)
Recent(ages) ==
    IF ages = <<>> THEN <<>>
    ELSE (IF Head(ages) <= RateWindow THEN <<Head(ages)>> ELSE <<>>)
         \o Recent(Tail(ages))

VARIABLES
    roadCache,         \* MemStorage.roadCache
    calls,             \* the getRoadsByBounds calls suspended at await fetch
    nCalls,            \* number of getRoadsByBounds calls made so far
    upstreamRequests,  \* number of requests sent to the Overpass service
    lastCall,          \* history: the call made last
    lastReturn,        \* history: the call that returned last
    requestLog         \* history: the query of the request behind each call

serverVars == <<roadCache, calls, nCalls, upstreamRequests, lastCall, lastReturn>>

(***************************************************************************)
(* useRoadsByBounds (hooks/useMapData.ts).  Times are in ticks of 500 ms:  *)
(* a timer holds the ticks left until it is due, a negative number when it *)
(* is overdue; lastQueryTimeRef is kept as the ticks elapsed since it.     *)
(***************************************************************************)
VARIABLES
    variant,               \* "client": client/src/hooks, "src": src/hooks
    mounted,               \* the component using the hook is mounted
    debouncedBounds,       \* useState debouncedBounds
    expandedBounds,        \* useState expandedBounds: the active query bounds
    lastQueriedBoundsRef,  \* lastQueriedBoundsRef.current
    debounceTimeoutRef,    \* debounceTimeoutRef.current: a timer id, 0 for null
    queryCountRef,         \* queryCountRef.current
    sinceLastQuery,        \* Date.now() - lastQueryTimeRef.current, capped
    initialLoadRef,        \* initialLoadRef.current
    applyTimers,           \* the pending setTimeout callbacks of line 89
    decayTimers,           \* the pending setTimeout callbacks of line 109
    lastEvent,             \* history: the last bounds change and what it did
    lastScheduled,         \* history: the bounds value scheduled and not
                           \* cancelled or applied since
    applyAges,             \* history: ticks since each apply of the window
    nApplies,              \* history: number of applies of the burst
    burst                  \* history: the first bounds, as long as all
                           \* bounds changes so far came within one tick
                           \* and inside its 100%-expansion

hookVars == <<variant, mounted, debouncedBounds, expandedBounds,
              lastQueriedBoundsRef, debounceTimeoutRef, queryCountRef,
              sinceLastQuery, initialLoadRef, applyTimers, decayTimers,
              lastEvent, lastScheduled, applyAges, nApplies, burst>>

(***************************************************************************)
(* The highlight store of MemStorage (storage.ts 42-76) and the routes     *)
(* over it (routes.ts 51-114).  An object is a function from its keys; a   *)
(* Map is the sequence of its entries in insertion order.  createdAt is    *)
(* the reading of the clock, an integer.                                   *)
(***************************************************************************)
VARIABLES
    highlights,   \* MemStorage.highlights
    currentId,    \* MemStorage.currentId
    clock,        \* what new Date() reads
    savedLog,     \* history: every saveRoadHighlight call, its argument and
                  \* the record it returned
    deleted,      \* history: the ids deleteRoadHighlight was called with
                  \* after they were assigned
    lastOp,       \* history: the store operation of the last step, its
                  \* input and its answer
    exchange      \* history: the HTTP request of the last step and its
                  \* response

storeVars == <<highlights, currentId, clock, savedLog, deleted>>

highlightVars == <<storeVars, lastOp>>

Undefined == [undefined |-> TRUE]

NoOp == [op |-> "none"]

NoExchange == [route |-> "none"]

Spread(a, b) ==
    \* { ...a, ...b }
    [k \in DOMAIN a \cup DOMAIN b |-> IF k \in DOMAIN b THEN b[k] ELSE a[k]]

Pick(a, keys) == [k \in DOMAIN a \cap keys |-> a[k]]

MapHas(m, k) == \E i \in 1..Len(m) : m[i].key = k

MapGet(m, k) ==
    IF MapHas(m, k)
    THEN m[CHOOSE i \in 1..Len(m) : m[i].key = k].value
    ELSE Undefined

MapSet(m, k, v) ==
    IF MapHas(m, k)
    THEN [i \in 1..Len(m) |-> IF m[i].key = k THEN [key |-> k, value |-> v]
                                               ELSE m[i]]
    ELSE Append(m, [key |-> k, value |-> v])

MapDeleteKeeping(m, k) ==
    \* a variant that leaves the entry where it is
    m

MapDelete(m, k) == SelectSeq(m, LAMBDA e : e.key # k)

MapValues(m) == [i \in 1..Len(m) |-> m[i].value]

RoadHighlightCallerFirst(highlight, id, createdAt) ==
    \* a variant that lets the argument's own id and createdAt win
    Spread([id |-> id, createdAt |-> createdAt], highlight)

RoadHighlight(highlight, id, createdAt) ==
    \* { ...highlight, id, createdAt } of storage.ts 56-60
    Spread(highlight, [id |-> id, createdAt |-> createdAt])

getRoadHighlights(m) == MapValues(m)

getRoadHighlight(m, id) == MapGet(m, id)

HighlightA ==
    [osmId |-> "way/1", name |-> "Garratt Lane", roadType |-> "A Road",
     length |-> 262, coordinates |-> <<<<51450, -200>>, <<51452, -198>>>>]

HighlightB ==
    \* an argument that brings an id and a createdAt of its own
    [osmId |-> "way/2", name |-> "Unnamed Road", roadType |-> "Cycle Lane",
     length |-> 0, coordinates |-> <<>>, id |-> 99, createdAt |-> -1]

SaveInputs == {HighlightB}

ProbeIds == 1..(MaxSaves + 1)

(***************************************************************************)
(* insertRoadHighlightSchema (schema.ts 6-20): the columns of the table    *)
(* without id and createdAt, all of them required; keys the schema does    *)
(* not know are dropped from the parsed data.  A request body is its       *)
(* well-typed keys and the set of its keys that hold a value of another    *)
(* JSON type than the column's.                                            *)
(***************************************************************************)
SchemaKeys == {"osmId", "name", "roadType", "length", "coordinates"}

safeParse(body) ==
    LET issues == (SchemaKeys \ DOMAIN body.fields)
                      \cup (SchemaKeys \cap body.illTyped)
    IN IF issues = {}
       THEN [success |-> TRUE, data |-> Pick(body.fields, SchemaKeys)]
       ELSE [success |-> FALSE, errors |-> issues]

BodyValid ==
    \* a body that passes, with two keys the schema leaves out
    [fields |-> HighlightB, illTyped |-> {}]

BodyMissingName ==
    [fields |-> Pick(HighlightA, SchemaKeys \ {"name"}), illTyped |-> {}]

BodyLengthText ==
    [fields |-> Pick(HighlightA, SchemaKeys \ {"length"}),
     illTyped |-> {"length"}]

Bodies == {BodyValid, BodyMissingName, BodyLengthText}

(***************************************************************************)
(* parseInt of a string, a sequence of characters: leading blanks, a sign, *)
(* then the longest run of decimal digits; NaN when there is no digit.     *)
(***************************************************************************)
DigitValue(c) ==
    CASE c = "0" -> 0 [] c = "1" -> 1 [] c = "2" -> 2 [] c = "3" -> 3
      [] c = "4" -> 4 [] c = "5" -> 5 [] c = "6" -> 6 [] c = "7" -> 7
      [] c = "8" -> 8 [] c = "9" -> 9 [] OTHER -> -1

RECURSIVE SkipBlanks(_)
SkipBlanks(s) ==
    IF s # <<>> /\ Head(s) = " " THEN SkipBlanks(Tail(s)) ELSE s

RECURSIVE DigitRun(_, _, _)
DigitRun(s, n, any) ==
    \* the value of the digits s starts with, after the n read so far
    IF s # <<>> /\ DigitValue(Head(s)) >= 0
    THEN DigitRun(Tail(s), 10 * n + DigitValue(Head(s)), TRUE)
    ELSE [isNaN |-> ~any, value |-> n]

parseInt(str) ==
    LET s == SkipBlanks(str)
        signed == s # <<>> /\ Head(s) \in {"-", "+"}
        run == DigitRun(IF signed THEN Tail(s) ELSE s, 0, FALSE)
    IN IF signed /\ Head(s) = "-"
       THEN [run EXCEPT !.value = 0 - run.value] ELSE run

IdParams ==
    {<<"1">>, <<"9">>, <<"a", "b", "c">>, <<"1", "a", "b", "c">>,
     <<"2", ".", "5">>}

(***************************************************************************)
(* GET /api/roads (routes.ts 9-48).  The query of a request is a function  *)
(* from the parameters it has to their text.  The hook writes a coordinate *)
(* into the URL as the shortest decimal text of the number (useMapData.ts  *)
(* 128); the route reads it with parseFloat: leading blanks, a sign, the   *)
(* digits, a point and more digits, whatever follows ignored, NaN when     *)
(* there is no digit.  Numbers are millidegrees, so three decimals count;  *)
(* no text of the model has an exponent or spells Infinity.                *)
(***************************************************************************)
DigitChar(d) ==
    CASE d = 0 -> "0" [] d = 1 -> "1" [] d = 2 -> "2" [] d = 3 -> "3"
      [] d = 4 -> "4" [] d = 5 -> "5" [] d = 6 -> "6" [] d = 7 -> "7"
      [] d = 8 -> "8" [] d = 9 -> "9"

RECURSIVE NatText(_)
NatText(n) ==
    IF n < 10 THEN <<DigitChar(n)>>
    ELSE Append(NatText(n \div 10), DigitChar(n % 10))

FractionText(f) ==
    \* the decimals of f thousandths, without the zeros at the end
    LET d == <<DigitChar(f \div 100), DigitChar((f \div 10) % 10),
               DigitChar(f % 10)>>
    IN IF f % 100 = 0 THEN SubSeq(d, 1, 1)
       ELSE IF f % 10 = 0 THEN SubSeq(d, 1, 2) ELSE d

NumberText(c) ==
    (IF c < 0 THEN <<"-">> ELSE <<>>)
        \o NatText(Abs(c) \div 1000)
        \o (IF Abs(c) % 1000 = 0 THEN <<>>
            ELSE <<".">> \o FractionText(Abs(c) % 1000))

RECURSIVE DigitPrefix(_)
DigitPrefix(s) ==
    IF s # <<>> /\ DigitValue(Head(s)) >= 0
    THEN <<Head(s)>> \o DigitPrefix(Tail(s)) ELSE <<>>

Thousandths(frac) ==
    LET d(i) == IF i <= Len(frac) THEN DigitValue(frac[i]) ELSE 0
    IN 100 * d(1) + 10 * d(2) + d(3)

parseFloatParam(str) ==
    LET s == SkipBlanks(str)
        signed == s # <<>> /\ Head(s) \in {"-", "+"}
        u == IF signed THEN Tail(s) ELSE s
        whole == DigitPrefix(u)
        after == SubSeq(u, Len(whole) + 1, Len(u))
        frac == IF after # <<>> /\ Head(after) = "."
                THEN DigitPrefix(Tail(after)) ELSE <<>>
        magnitude == 1000 * DigitRun(whole, 0, FALSE).value + Thousandths(frac)
    IN [isNaN |-> whole = <<>> /\ frac = <<>>,
        value |-> IF signed /\ Head(s) = "-" THEN 0 - magnitude ELSE magnitude]

CoordKeys == {"swLat", "swLng", "neLat", "neLng"}

QueryOf(box) ==
    [swLat |-> NumberText(box.swLat), swLng |-> NumberText(box.swLng),
     neLat |-> NumberText(box.neLat), neLng |-> NumberText(box.neLng)]

QueryNoSwLat == Pick(QueryOf(BoxScenario), CoordKeys \ {"swLat"})

QueryEmptyNeLng == [QueryOf(BoxScenario) EXCEPT !.neLng = <<>>]

QueryWord == [QueryOf(BoxScenario) EXCEPT !.swLng = <<"w", "e", "s", "t">>]

QuerySuffixed ==
    \* neLat=51.46abc
    [QueryOf(BoxScenario) EXCEPT !.neLat = @ \o <<"a", "b", "c">>]

Queries ==
    {QueryOf(BoxScenario), QueryNoSwLat, QueryEmptyNeLng, QueryWord,
     QuerySuffixed}

RoadsResponseFailing(query, returned) ==
    \* a variant that reports a failed fetch to the client
    IF returned.path \in {"thrown", "error"}
    THEN [route |-> "GET /api/roads", query |-> query, n |-> returned.n,
          status |-> 500, json |-> [message |-> "Failed to fetch roads"]]
    ELSE [route |-> "GET /api/roads", query |-> query, n |-> returned.n,
          status |-> 200, json |-> [roads |-> returned.ret]]

RoadsResponse(query, returned) ==
    \* what the route sends once getRoadsByBounds has settled (routes.ts
    \* 36-47); no path of getRoadsByBounds throws, its catch returns
    IF returned.path = "thrown"
    THEN [route |-> "GET /api/roads", query |-> query, n |-> returned.n,
          status |-> 500, json |-> [message |-> "Failed to fetch roads"]]
    ELSE [route |-> "GET /api/roads", query |-> query, n |-> returned.n,
          status |-> 200, json |-> [roads |-> returned.ret]]

(***************************************************************************)
(* The pure functions, applied on their own: an argument list and what the *)
(* function returned for it.                                               *)
(***************************************************************************)
VARIABLES
    args,         \* the function to apply and its arguments
    yielded        \* what it returned, once applied

pureVars == <<args, yielded>>

NoArgs == [fn |-> "none"]

NoResult == [fn |-> "none"]

(***************************************************************************)
(* The state of the Home component (part_007 21-23) and of its effect of   *)
(* lines 53-56, which React runs after the render that changed             *)
(* selectedRoads and before the next one.                                  *)
(***************************************************************************)
VARIABLES
    selectedRoads,   \* the selected roads, in the order of their keys
    selectedRoad,    \* the road of the details panel, or None
    totalLength,     \* the state set by the effect
    lengthEffect,    \* the run of the effect that is due, if one is
    lastClick        \* the last handler that ran and the selection before it

homeVars == <<selectedRoads, selectedRoad, totalLength, lengthEffect, lastClick>>

NoEffect == [due |-> FALSE]

NoClick == [op |-> "none"]

HomeInit ==
    \* lines 21-23; the effect runs after the first render
    /\ selectedRoads = <<>>
    /\ selectedRoad = None
    /\ totalLength = 0
    /\ lengthEffect = [due |-> TRUE, selectedRoads |-> <<>>]
    /\ lastClick = NoClick

serverSide ==
    <<serverVars, highlightVars, requestLog, exchange, pureVars, homeVars>>

vars ==
    <<serverVars, hookVars, highlightVars, requestLog, exchange, pureVars,
      homeVars>>

Idle == [pc |-> "idle"]

InFlight == {s \in Slots : calls[s].pc # "idle"}

Summary(r) ==
    IF r.n = 0 THEN NoCall
    ELSE [n |-> 1, box |-> r.box, key |-> r.key, path |-> r.path, ret |-> r.ret]

StorageInit ==
    /\ roadCache = <<>>
    /\ calls = [s \in Slots |-> Idle]
    /\ nCalls = 0
    /\ upstreamRequests = 0
    /\ lastCall = NoCall
    /\ lastReturn = NoCall
    /\ requestLog = <<>>

HookInit(v) ==
    \* the refs and states of lines 51-57 and the first run of the effect,
    \* with bounds null
    /\ variant = v
    /\ mounted = TRUE
    /\ debouncedBounds = None
    /\ expandedBounds = None
    /\ lastQueriedBoundsRef = None
    /\ debounceTimeoutRef = 0
    /\ queryCountRef = 0
    /\ sinceLastQuery = 0
    /\ initialLoadRef = (v = "client")
    /\ applyTimers = {}
    /\ decayTimers = <<>>
    /\ lastEvent = [n |-> 0]
    /\ lastScheduled = None
    /\ applyAges = <<>>
    /\ nApplies = 0
    /\ burst = [first |-> None, ok |-> TRUE]

HighlightsInit ==
    \* the constructor (storage.ts 46-50)
    /\ highlights = <<>>
    /\ currentId = 1
    /\ clock = 0
    /\ savedLog = <<>>
    /\ deleted = {}
    /\ lastOp = NoOp
    /\ exchange = NoExchange

PureIdle == args = NoArgs /\ yielded = NoResult

Init == StorageInit /\ HookInit("client") /\ HighlightsInit /\ PureIdle /\ HomeInit

(***************************************************************************)
(* getRoadsByBounds up to its first await (storage.ts 78-155): the two     *)
(* cache paths return at once, the third sends the request and suspends.   *)
(***************************************************************************)
GetRoadsByBoundsCoalescing(box) ==
    \* a variant in which a call joins the request of a call in flight for
    \* the same key instead of sending its own
    LET cacheKey == CacheKeyOf(box)
        n == nCalls + 1
        pred == IF InFlight = {} THEN Summary(lastReturn) ELSE NoCall
        found == CacheLookup(roadCache, box)
        overlap(others) == [s \in Slots |->
            IF others[s].pc # "idle"
            THEN [others[s] EXCEPT !.overlapped = TRUE] ELSE others[s]]
    IN
    /\ nCalls < MaxCalls
    /\ nCalls' = n
    /\ lastCall' = [n |-> n, box |-> box]
    /\ IF found.path # "miss"
       THEN /\ lastReturn' = [n |-> n, box |-> box, key |-> cacheKey,
                              path |-> found.path, ret |-> found.roads,
                              pred |-> pred, overlapped |-> InFlight # {},
                              elapsed |-> 0, replaced |-> FALSE]
            /\ calls' = overlap(calls)
            /\ UNCHANGED <<roadCache, upstreamRequests, hookVars, highlightVars>>
       ELSE /\ \E s \in Slots :
                 /\ calls[s].pc = "idle"
                 /\ calls' = [overlap(calls) EXCEPT ![s] =
                        [pc |-> "fetching", elapsed |-> 0, n |-> n, box |-> box,
                         key |-> cacheKey,
                         query |-> [box |-> ExpandedQueryBox(box),
                                    major |-> FetchOnlyMajorRoads(roadCache, box)],
                         pred |-> pred, overlapped |-> InFlight # {}]]
            /\ upstreamRequests' =
                 IF \E o \in InFlight : calls[o].key = cacheKey
                 THEN upstreamRequests ELSE upstreamRequests + 1
            /\ UNCHANGED <<roadCache, lastReturn, hookVars, highlightVars>>

GetRoadsByBounds(box) ==
    LET cacheKey == CacheKeyOf(box)
        n == nCalls + 1
        pred == IF InFlight = {} THEN Summary(lastReturn) ELSE NoCall
        found == CacheLookup(roadCache, box)
        overlap(others) == [s \in Slots |->
            IF others[s].pc # "idle"
            THEN [others[s] EXCEPT !.overlapped = TRUE] ELSE others[s]]
    IN
    /\ nCalls < MaxCalls
    /\ nCalls' = n
    /\ lastCall' = [n |-> n, box |-> box]
    /\ IF found.path # "miss"
       THEN /\ lastReturn' = [n |-> n, box |-> box, key |-> cacheKey,
                              path |-> found.path, ret |-> found.roads,
                              pred |-> pred, overlapped |-> InFlight # {},
                              elapsed |-> 0, replaced |-> FALSE]
            /\ calls' = overlap(calls)
            /\ UNCHANGED <<roadCache, upstreamRequests, hookVars, highlightVars>>
       ELSE /\ \E s \in Slots :
                 /\ calls[s].pc = "idle"
                 /\ calls' = [overlap(calls) EXCEPT ![s] =
                        [pc |-> "fetching", elapsed |-> 0, n |-> n, box |-> box,
                         key |-> cacheKey,
                         query |-> [box |-> ExpandedQueryBox(box),
                                    major |-> FetchOnlyMajorRoads(roadCache, box)],
                         pred |-> pred, overlapped |-> InFlight # {}]]
            /\ upstreamRequests' = upstreamRequests + 1
            /\ UNCHANGED <<roadCache, lastReturn, hookVars, highlightVars>>

(***************************************************************************)
(* The request is answered with an ok status while the call awaits fetch:  *)
(* the call clears its abort timer and goes on to await the body           *)
(* (storage.ts 148-163).                                                   *)
(***************************************************************************)
ResponseArrives(s) ==
    /\ calls[s].pc = "fetching"
    /\ calls' = [calls EXCEPT ![s].pc = "body"]
    /\ UNCHANGED <<roadCache, nCalls, upstreamRequests, lastCall, lastReturn,
                   hookVars, highlightVars>>

(***************************************************************************)
(* The body arrives and parses (storage.ts 163-209).                       *)
(***************************************************************************)
FetchResolvesEvicting(s, data) ==
    \* a variant that makes room for the new entry by dropping the oldest
    LET c == calls[s]
        roads == ParseRoads(data)
    IN
    /\ c.pc = "body"
    /\ roadCache' = CacheSet(IF roadCache = <<>> THEN roadCache
                             ELSE Tail(roadCache), c.key, roads)
    /\ lastReturn' = [n |-> c.n, box |-> c.box, key |-> c.key, path |-> "fetch",
                      ret |-> roads, pred |-> c.pred, overlapped |-> c.overlapped,
                      elapsed |-> c.elapsed,
                      replaced |-> CacheHas(roadCache, c.key)]
    /\ calls' = [calls EXCEPT ![s] = Idle]
    /\ UNCHANGED <<nCalls, upstreamRequests, lastCall, hookVars, highlightVars>>

FetchResolves(s, data) ==
    LET c == calls[s]
        roads == ParseRoads(data)
    IN
    /\ c.pc = "body"
    /\ roadCache' = CacheSet(roadCache, c.key, roads)
    /\ lastReturn' = [n |-> c.n, box |-> c.box, key |-> c.key, path |-> "fetch",
                      ret |-> roads, pred |-> c.pred, overlapped |-> c.overlapped,
                      elapsed |-> c.elapsed,
                      replaced |-> CacheHas(roadCache, c.key)]
    /\ calls' = [calls EXCEPT ![s] = Idle]
    /\ UNCHANGED <<nCalls, upstreamRequests, lastCall, hookVars, highlightVars>>

(***************************************************************************)
(* The request fails.  While the call awaits fetch: fetch rejects with a   *)
(* network error, or with the abort of the timer of line 146 once the      *)
(* timeout has passed, or the status is not ok.  While it awaits the body: *)
(* the body is not JSON, or has no elements array.  Every one of them      *)
(* lands in the catch (storage.ts 210-213).                                *)
(***************************************************************************)
CanFail(c, kind) ==
    \/ kind \in {"network", "status"} /\ c.pc = "fetching"
    \/ kind = "abort" /\ c.pc = "fetching" /\ c.elapsed >= FetchTimeoutMs
    \/ kind \in {"json", "shape"} /\ c.pc = "body"

FetchFailsCachingEmpty(s, kind) ==
    \* a variant that remembers the failure as an empty road list
    LET c == calls[s]
    IN
    /\ CanFail(c, kind)
    /\ roadCache' = CacheSet(roadCache, c.key, <<>>)
    /\ lastReturn' = [n |-> c.n, box |-> c.box, key |-> c.key, path |-> "error",
                      ret |-> <<>>, pred |-> c.pred, overlapped |-> c.overlapped,
                      elapsed |-> c.elapsed, replaced |-> FALSE]
    /\ calls' = [calls EXCEPT ![s] = Idle]
    /\ UNCHANGED <<nCalls, upstreamRequests, lastCall, hookVars, highlightVars>>

FetchFails(s, kind) ==
    LET c == calls[s]
    IN
    /\ CanFail(c, kind)
    /\ lastReturn' = [n |-> c.n, box |-> c.box, key |-> c.key, path |-> "error",
                      ret |-> <<>>, pred |-> c.pred, overlapped |-> c.overlapped,
                      elapsed |-> c.elapsed, replaced |-> FALSE]
    /\ calls' = [calls EXCEPT ![s] = Idle]
    /\ UNCHANGED <<roadCache, nCalls, upstreamRequests, lastCall, hookVars,
                   highlightVars>>

(***************************************************************************)
(* Time passes on the server, a timeout at a time.  A timer that is due    *)
(* fires before time moves on; the body of a response has no timer.        *)
(***************************************************************************)
ServerTick ==
    /\ InFlight # {}
    /\ \A s \in Slots :
           calls[s].pc = "fetching" => calls[s].elapsed < FetchTimeoutMs
    /\ calls' = [s \in Slots |->
           IF calls[s].pc = "idle" THEN calls[s]
           ELSE [calls[s] EXCEPT !.elapsed =
                     IF @ < 2 * FetchTimeoutMs THEN @ + FetchTimeoutMs ELSE @]]
    /\ UNCHANGED <<roadCache, nCalls, upstreamRequests, lastCall, lastReturn,
                   hookVars, highlightVars>>

(***************************************************************************)
(* The route GET /api/roads: the checks of the query, the call, and the    *)
(* response once the call has settled (routes.ts 9-48).                    *)
(***************************************************************************)
GetRoads(query) ==
    LET falsy(k) == k \notin DOMAIN query \/ query[k] = <<>>
        swLat == parseFloatParam(query.swLat)
        swLng == parseFloatParam(query.swLng)
        neLat == parseFloatParam(query.neLat)
        neLng == parseFloatParam(query.neLng)
    IN
    IF \E k \in CoordKeys : falsy(k)
    THEN /\ exchange' =
                [route |-> "GET /api/roads", query |-> query, n |-> 0,
                 status |-> 400,
                 json |-> [message |->
                     "Missing required parameters: swLat, swLng, neLat, neLng"]]
         /\ UNCHANGED <<serverVars, hookVars, highlightVars, requestLog>>
    ELSE IF swLat.isNaN \/ swLng.isNaN \/ neLat.isNaN \/ neLng.isNaN
    THEN /\ exchange' =
                [route |-> "GET /api/roads", query |-> query, n |-> 0,
                 status |-> 400,
                 json |-> [message |->
                     "Invalid parameters: coordinates must be numbers"]]
         /\ UNCHANGED <<serverVars, hookVars, highlightVars, requestLog>>
    ELSE /\ GetRoadsByBounds([swLat |-> swLat.value, swLng |-> swLng.value,
                              neLat |-> neLat.value, neLng |-> neLng.value])
         /\ requestLog' = Append(requestLog, query)
         /\ exchange' =
                IF lastReturn'.n = nCalls'
                THEN RoadsResponse(query, lastReturn')
                ELSE [route |-> "GET /api/roads", query |-> query,
                      n |-> nCalls', status |-> 0, json |-> [pending |-> TRUE]]

Respond ==
    \* the route resumes with what the call returned
    /\ exchange' = RoadsResponse(requestLog[lastReturn'.n], lastReturn')
    /\ UNCHANGED requestLog

(***************************************************************************)
(* Spec: getRoadsByBounds called as a method of the store, every request   *)
(* settled before its timeout.  SpecRoads: the calls the route makes, with *)
(* time passing.                                                           *)
(***************************************************************************)
Called(A) ==
    \* a step of a call that no route made
    A /\ UNCHANGED <<requestLog, exchange>>

Next ==
    /\ \/ \E box \in ReqBoxes : Called(GetRoadsByBounds(box))
       \/ \E s \in Slots : Called(ResponseArrives(s))
       \/ \E s \in Slots, data \in Responses : Called(FetchResolves(s, data))
       \/ \E s \in Slots, kind \in FailureKinds : Called(FetchFails(s, kind))
    /\ UNCHANGED <<pureVars, homeVars>>

RoadsNext ==
    /\ \/ \E query \in Queries : GetRoads(query)
       \/ \E s \in Slots : Called(ResponseArrives(s))
       \/ \E s \in Slots, data \in Responses : FetchResolves(s, data) /\ Respond
       \/ \E s \in Slots, kind \in FailureKinds : FetchFails(s, kind) /\ Respond
       \/ Called(ServerTick)
    /\ UNCHANGED <<pureVars, homeVars>>

Spec == Init /\ [][Next]_vars

InitRoads == StorageInit /\ HookInit("client") /\ HighlightsInit /\ PureIdle /\ HomeInit

SpecRoads == InitRoads /\ [][RoadsNext]_vars

(***************************************************************************)
(* The Overpass service over map data that does not change: what it        *)
(* answers to the query of storage.ts 125-142.  The first statement of the  *)
(* union selects the named ways with a highway tag, of the five major       *)
(* classes only when fetchOnlyMajorRoads is set, that have a node in the    *)
(* expanded box; the second selects the ways of four major classes, named   *)
(* or not, that have a node within 1000 m of the centre (51.4571,           *)
(* -0.1927).  `out body; >; out skel' prints the ways and then their nodes. *)
(***************************************************************************)
WorldNodes ==
    << Node(1, 51455, -195), Node(2, 51457, -193), Node(3, 51462, -188),
       Node(4, 51600, 0) >>

WorldWays ==
    << Way(10, <<1, 2>>, "secondary", "Garratt Lane"),
       Way(11, <<2, 3>>, "residential", "Acacia Grove"),
       Way(16, <<1, 3>>, "primary", ""),
       Way(17, <<4>>, "tertiary", "Far Road"),
       Way(18, <<3>>, "service", "") >>

MajorHighways == {"motorway", "trunk", "primary", "secondary", "tertiary"}

CentreHighways == {"motorway", "trunk", "primary", "secondary"}

NodeOfWorld(id) ==
    WorldNodes[CHOOSE i \in 1..Len(WorldNodes) : WorldNodes[i].id = id]

InBox(node, box) ==
    /\ box.swLat <= node.lat /\ node.lat <= box.neLat
    /\ box.swLng <= node.lon /\ node.lon <= box.neLng

AroundCentre(node) ==
    \* within 1000 m of the centre, which is node 2 to the millidegree
    /\ <<node.lat, node.lon>> \in
           {<<51455, -195>>, <<51457, -193>>, <<51462, -188>>}
    /\ calculateDistance(node.lat, node.lon, 51457, -193) <= 1000

Selects(query, way) ==
    LET nodesOfWay == {NodeOfWorld(way.nodes[k]) : k \in 1..Len(way.nodes)}
    IN  \/ /\ way.highway # ""
           /\ way.name # ""
           /\ query.major => way.highway \in MajorHighways
           /\ \E node \in nodesOfWay : InBox(node, query.box)
        \/ /\ way.highway \in CentreHighways
           /\ \E node \in nodesOfWay : AroundCentre(node)

Overpass(query) ==
    LET ways == SelectSeq(WorldWays, LAMBDA way : Selects(query, way))
        printed(node) == \E i \in 1..Len(ways) :
                            \E k \in 1..Len(ways[i].nodes) :
                               ways[i].nodes[k] = node.id
    IN  ways \o SelectSeq(WorldNodes, printed)

\* a small box north-east of the others, within BoxBorough only
BoxApart == [swLat |-> 51480, swLng |-> -150, neLat |-> 51490, neLng |-> -140]

\* a box whose coordinates round to the key of BoxScenario, the south and
\* west ones downwards
BoxOffGrid == [swLat |-> 51454, swLng |-> -196, neLat |-> 51464, neLng |-> -186]

WorldBoxes == ReqBoxes \cup {BoxApart, BoxOffGrid}

WorldNext ==
    /\ \/ \E box \in WorldBoxes : Called(GetRoadsByBounds(box))
       \/ \E s \in Slots : Called(ResponseArrives(s))
       \/ \E s \in Slots :
             /\ calls[s].pc = "body"
             /\ Called(FetchResolves(s, Overpass(calls[s].query)))
       \/ \E s \in Slots, kind \in FailureKinds : Called(FetchFails(s, kind))
    /\ UNCHANGED <<pureVars, homeVars>>

InitWorld == StorageInit /\ HookInit("client") /\ HighlightsInit /\ PureIdle /\ HomeInit

SpecWorld == InitWorld /\ [][WorldNext]_vars

(***************************************************************************)
(* The effect of useRoadsByBounds runs for a new bounds value (lines       *)
(* 60-119), after the cleanup of its previous run (lines 114-118).         *)
(***************************************************************************)
Geometric(inner, outer) ==
    /\ inner.swLat >= outer.swLat /\ inner.swLng >= outer.swLng
    /\ inner.neLat <= outer.neLat /\ inner.neLng <= outer.neLng

BurstOver == [first |-> None, ok |-> FALSE]

BurstAfter(bounds) ==
    IF ~burst.ok \/ bounds = None \/ lastEvent.n >= 5 THEN BurstOver
    ELSE IF burst.first = None THEN [first |-> bounds, ok |-> TRUE]
    ELSE IF Geometric(bounds, expandBounds(burst.first, 100)) THEN burst
    ELSE BurstOver

BoundsChangeKeepingTimer(bounds) ==
    \* a variant whose effect and cleanup do not clear the pending timer
    LET n == lastEvent.n + 1
        debounceTime == DebounceTime(initialLoadRef, queryCountRef, sinceLastQuery)
    IN
    /\ mounted
    /\ lastEvent.n < MaxEvents
    /\ burst' = BurstAfter(bounds)
    /\ nApplies' = IF burst'.ok THEN nApplies ELSE 0
    /\ IF lastQueriedBoundsRef # None
          /\ isWithinExistingBounds(bounds, lastQueriedBoundsRef, DefaultTolerance)
       THEN /\ lastScheduled' = None
            /\ lastEvent' = [n |-> n, bounds |-> bounds, did |-> "ignored"]
            /\ UNCHANGED <<applyTimers, debouncedBounds, debounceTimeoutRef>>
       ELSE /\ applyTimers' = applyTimers \cup
                    {[id |-> n, left |-> debounceTime, bounds |-> bounds]}
            /\ debounceTimeoutRef' = n
            /\ lastScheduled' = bounds
            /\ lastEvent' = [n |-> n, bounds |-> bounds, did |-> "scheduled"]
            /\ UNCHANGED debouncedBounds
    /\ UNCHANGED <<serverSide, variant, mounted, expandedBounds,
                   lastQueriedBoundsRef, queryCountRef, sinceLastQuery,
                   initialLoadRef, decayTimers, applyAges>>

BoundsChange(bounds) ==
    LET n == lastEvent.n + 1
        cleared == {t \in applyTimers : t.id # debounceTimeoutRef}
        debounceTime == DebounceTime(initialLoadRef, queryCountRef, sinceLastQuery)
    IN
    /\ mounted
    /\ lastEvent.n < MaxEvents
    /\ burst' = BurstAfter(bounds)
    /\ nApplies' = IF burst'.ok THEN nApplies ELSE 0
    /\ IF bounds = None
       THEN /\ applyTimers' = cleared
            /\ debouncedBounds' = None
            /\ lastScheduled' = None
            /\ lastEvent' = [n |-> n, bounds |-> bounds, did |-> "null"]
            /\ UNCHANGED debounceTimeoutRef
       ELSE IF lastQueriedBoundsRef # None
               /\ isWithinExistingBounds(bounds, lastQueriedBoundsRef, DefaultTolerance)
       THEN /\ applyTimers' = cleared
            /\ lastScheduled' = None
            /\ lastEvent' = [n |-> n, bounds |-> bounds, did |-> "ignored"]
            /\ UNCHANGED <<debouncedBounds, debounceTimeoutRef>>
       ELSE /\ applyTimers' = cleared \cup
                    {[id |-> n, left |-> debounceTime, bounds |-> bounds]}
            /\ debounceTimeoutRef' = n
            /\ lastScheduled' = bounds
            /\ lastEvent' = [n |-> n, bounds |-> bounds, did |-> "scheduled"]
            /\ UNCHANGED debouncedBounds
    /\ UNCHANGED <<serverSide, variant, mounted, expandedBounds,
                   lastQueriedBoundsRef, queryCountRef, sinceLastQuery,
                   initialLoadRef, decayTimers, applyAges>>

\* no pending timer is due before one with d ticks left
Earliest(d) ==
    /\ \A t \in applyTimers : t.left >= d
    /\ \A i \in 1..Len(decayTimers) : decayTimers[i] >= d

(***************************************************************************)
(* The debounce timer fires (lines 89-112).                                *)
(***************************************************************************)
ApplyBoundsNotRecorded(t) ==
    \* a variant that leaves lastQueriedBoundsRef as it was
    LET newExpandedBounds == expandBounds(t.bounds, BufferSize(initialLoadRef))
    IN
    /\ t \in applyTimers
    /\ t.left <= 0
    /\ Earliest(t.left)
    /\ applyTimers' = applyTimers \ {t}
    /\ debouncedBounds' = t.bounds
    /\ expandedBounds' = newExpandedBounds
    /\ initialLoadRef' = FALSE
    /\ queryCountRef' = queryCountRef + 1
    /\ sinceLastQuery' = 0
    /\ decayTimers' = Append(decayTimers, RateWindow)
    /\ applyAges' = Append(applyAges, 0)
    /\ nApplies' = IF burst.ok THEN nApplies + 1 ELSE 0
    /\ lastScheduled' = None
    /\ UNCHANGED <<serverSide, variant, mounted, debounceTimeoutRef,
                   lastEvent, burst, lastQueriedBoundsRef>>

ApplyBounds(t) ==
    LET newExpandedBounds == expandBounds(t.bounds, BufferSize(initialLoadRef))
    IN
    /\ t \in applyTimers
    /\ t.left <= 0
    /\ Earliest(t.left)
    /\ applyTimers' = applyTimers \ {t}
    /\ debouncedBounds' = t.bounds
    /\ expandedBounds' = newExpandedBounds
    /\ lastQueriedBoundsRef' = newExpandedBounds
    /\ initialLoadRef' = FALSE
    /\ queryCountRef' = queryCountRef + 1
    /\ sinceLastQuery' = 0
    /\ decayTimers' = Append(decayTimers, RateWindow)
    /\ applyAges' = Append(applyAges, 0)
    /\ nApplies' = IF burst.ok THEN nApplies + 1 ELSE 0
    /\ lastScheduled' = None
    /\ UNCHANGED <<serverSide, variant, mounted, debounceTimeoutRef,
                   lastEvent, burst>>

(***************************************************************************)
(* The timer of lines 109-111 fires, 10 seconds after an apply.            *)
(***************************************************************************)
DecayCountToZero ==
    \* a variant that resets the counter instead of lowering it by one
    /\ decayTimers # <<>>
    /\ Head(decayTimers) <= 0
    /\ Earliest(Head(decayTimers))
    /\ decayTimers' = Tail(decayTimers)
    /\ queryCountRef' = 0
    /\ UNCHANGED <<serverSide, variant, mounted, debouncedBounds, expandedBounds,
                   lastQueriedBoundsRef, debounceTimeoutRef, sinceLastQuery,
                   initialLoadRef, applyTimers, lastEvent, lastScheduled,
                   applyAges, nApplies, burst>>

DecayCount ==
    /\ decayTimers # <<>>
    /\ Head(decayTimers) <= 0
    /\ Earliest(Head(decayTimers))
    /\ decayTimers' = Tail(decayTimers)
    /\ queryCountRef' = IF queryCountRef - 1 > 0 THEN queryCountRef - 1 ELSE 0
    /\ UNCHANGED <<serverSide, variant, mounted, debouncedBounds, expandedBounds,
                   lastQueriedBoundsRef, debounceTimeoutRef, sinceLastQuery,
                   initialLoadRef, applyTimers, lastEvent, lastScheduled,
                   applyAges, nApplies, burst>>

(***************************************************************************)
(* The component unmounts: the cleanup of lines 114-118 runs.              *)
(***************************************************************************)
Unmount ==
    /\ mounted
    /\ mounted' = FALSE
    /\ applyTimers' = {t \in applyTimers : t.id # debounceTimeoutRef}
    /\ lastScheduled' = None
    /\ UNCHANGED <<serverSide, variant, debouncedBounds, expandedBounds,
                   lastQueriedBoundsRef, debounceTimeoutRef, queryCountRef,
                   sinceLastQuery, initialLoadRef, decayTimers, lastEvent,
                   applyAges, nApplies, burst>>

(***************************************************************************)
(* 500 ms pass.  A timer fires when it is due or at most MaxLate ticks     *)
(* later.                                                                  *)
(***************************************************************************)
Tick ==
    /\ Earliest(1 - MaxLate)
    /\ applyTimers' = {[t EXCEPT !.left = t.left - 1] : t \in applyTimers}
    /\ decayTimers' = Shifted(decayTimers, -1)
    /\ sinceLastQuery' = IF sinceLastQuery < RateWindow THEN sinceLastQuery + 1
                          ELSE RateWindow
    /\ applyAges' = Recent(Shifted(applyAges, 1))
    /\ burst' = IF lastEvent.n \in 1..4 THEN BurstOver ELSE burst
    /\ nApplies' = IF burst'.ok THEN nApplies ELSE 0
    /\ UNCHANGED <<serverSide, variant, mounted, debouncedBounds, expandedBounds,
                   lastQueriedBoundsRef, debounceTimeoutRef, queryCountRef,
                   initialLoadRef, lastEvent, lastScheduled>>

HookNext ==
    \/ \E bounds \in RawBounds : BoundsChange(bounds)
    \/ \E t \in applyTimers : ApplyBounds(t)
    \/ DecayCount
    \/ Unmount
    \/ Tick

InitHook ==
    /\ StorageInit /\ HighlightsInit /\ PureIdle /\ HomeInit
    /\ \E v \in {"client", "src"} : HookInit(v)

SpecHook == InitHook /\ [][HookNext]_vars

(***************************************************************************)
(* The operations of the highlight store.  None of them awaits, so each    *)
(* runs to its end before any other starts (storage.ts 52-76).             *)
(***************************************************************************)
SaveRoadHighlightReusingIds(highlight) ==
    \* a variant that numbers a record after the records stored
    \E now \in {clock, clock + 1} :
        LET id == Len(highlights) + 1
            roadHighlight == RoadHighlight(highlight, id, now)
        IN
        /\ Len(savedLog) < MaxSaves
        /\ currentId' = currentId + 1
        /\ clock' = now
        /\ highlights' = MapSet(highlights, id, roadHighlight)
        /\ savedLog' = Append(savedLog, [highlight |-> highlight, at |-> now,
                                         roadHighlight |-> roadHighlight])
        /\ lastOp' = [op |-> "save", highlight |-> highlight,
                      roadHighlight |-> roadHighlight]
        /\ UNCHANGED deleted

SaveRoadHighlight(highlight) ==
    \E now \in {clock, clock + 1} :
        LET id == currentId
            roadHighlight == RoadHighlight(highlight, id, now)
        IN
        /\ Len(savedLog) < MaxSaves
        /\ currentId' = currentId + 1
        /\ clock' = now
        /\ highlights' = MapSet(highlights, id, roadHighlight)
        /\ savedLog' = Append(savedLog, [highlight |-> highlight, at |-> now,
                                         roadHighlight |-> roadHighlight])
        /\ lastOp' = [op |-> "save", highlight |-> highlight,
                      roadHighlight |-> roadHighlight]
        /\ UNCHANGED deleted

GetRoadHighlights ==
    /\ lastOp' = [op |-> "list", list |-> getRoadHighlights(highlights)]
    /\ UNCHANGED <<highlights, currentId, clock, savedLog, deleted>>

GetRoadHighlight(id) ==
    /\ lastOp' = [op |-> "get", id |-> id,
                  found |-> getRoadHighlight(highlights, id)]
    /\ UNCHANGED <<highlights, currentId, clock, savedLog, deleted>>

DeleteRoadHighlightAlwaysTrue(id) ==
    \* a variant that answers true whether or not the id was stored
    /\ highlights' = MapDelete(highlights, id)
    /\ deleted' = IF id \in 1..(currentId - 1) THEN deleted \cup {id}
                                               ELSE deleted
    /\ lastOp' = [op |-> "delete", id |-> id, removed |-> TRUE]
    /\ UNCHANGED <<currentId, clock, savedLog>>

DeleteRoadHighlight(id) ==
    /\ highlights' = MapDelete(highlights, id)
    /\ deleted' = IF id \in 1..(currentId - 1) THEN deleted \cup {id}
                                               ELSE deleted
    /\ lastOp' = [op |-> "delete", id |-> id,
                  removed |-> MapHas(highlights, id)]
    /\ UNCHANGED <<currentId, clock, savedLog>>

(***************************************************************************)
(* The routes over the store (routes.ts 51-114).  The catch of each route  *)
(* answers 500; no store operation throws, so no step reaches it.          *)
(***************************************************************************)
PostHighlightsSavingFirst(body) ==
    \* a variant that stores the body before it looks at the validation
    LET result == safeParse(body)
    IN
    /\ SaveRoadHighlight(Spread(Pick(body.fields, SchemaKeys),
                                [createdAt |-> clock]))
    /\ exchange' =
           IF result.success
           THEN [route |-> "POST /api/highlights", body |-> body,
                 status |-> 201, json |-> lastOp'.roadHighlight]
           ELSE [route |-> "POST /api/highlights", body |-> body,
                 status |-> 400,
                 json |-> [message |-> "Invalid road highlight data",
                           errors |-> result.errors]]

PostHighlights(body) ==
    LET result == safeParse(body)
    IN
    IF ~result.success
    THEN /\ exchange' = [route |-> "POST /api/highlights", body |-> body,
                         status |-> 400,
                         json |-> [message |-> "Invalid road highlight data",
                                   errors |-> result.errors]]
         /\ lastOp' = NoOp
         /\ UNCHANGED storeVars
    ELSE /\ SaveRoadHighlight(Spread(result.data, [createdAt |-> clock]))
         /\ exchange' = [route |-> "POST /api/highlights", body |-> body,
                         status |-> 201, json |-> lastOp'.roadHighlight]

GetHighlights ==
    /\ GetRoadHighlights
    /\ exchange' = [route |-> "GET /api/highlights", status |-> 200,
                    json |-> [highlights |-> lastOp'.list]]

DeleteHighlightTrustingId(param) ==
    \* a variant that answers success without asking whether the id was there
    LET id == parseInt(param)
    IN
    IF id.isNaN
    THEN /\ exchange' = [route |-> "DELETE /api/highlights/:id",
                         param |-> param, status |-> 400,
                         json |-> [message |-> "Invalid ID parameter"]]
         /\ lastOp' = NoOp
         /\ UNCHANGED storeVars
    ELSE /\ DeleteRoadHighlight(id.value)
         /\ exchange' = [route |-> "DELETE /api/highlights/:id",
                         param |-> param, status |-> 200,
                         json |-> [success |-> TRUE]]

DeleteHighlight(param) ==
    LET id == parseInt(param)
    IN
    IF id.isNaN
    THEN /\ exchange' = [route |-> "DELETE /api/highlights/:id",
                         param |-> param, status |-> 400,
                         json |-> [message |-> "Invalid ID parameter"]]
         /\ lastOp' = NoOp
         /\ UNCHANGED storeVars
    ELSE /\ DeleteRoadHighlight(id.value)
         /\ exchange' =
                IF ~lastOp'.removed
                THEN [route |-> "DELETE /api/highlights/:id",
                      param |-> param, status |-> 404,
                      json |-> [message |-> "Road highlight not found"]]
                ELSE [route |-> "DELETE /api/highlights/:id",
                      param |-> param, status |-> 200,
                      json |-> [success |-> TRUE]]

Direct(A) ==
    \* a store operation called without a route
    A /\ exchange' = NoExchange

HighlightsNext ==
    /\ \/ \E h \in SaveInputs : Direct(SaveRoadHighlight(h))
       \/ Direct(GetRoadHighlights)
       \/ \E id \in ProbeIds : Direct(GetRoadHighlight(id))
       \/ \E id \in ProbeIds : Direct(DeleteRoadHighlight(id))
       \/ \E body \in Bodies : PostHighlights(body)
       \/ GetHighlights
       \/ \E param \in IdParams : DeleteHighlight(param)
    /\ UNCHANGED <<serverVars, hookVars, requestLog, pureVars, homeVars>>

InitHighlights ==
    StorageInit /\ HookInit("client") /\ HighlightsInit /\ PureIdle /\ HomeInit

SpecHighlights == InitHighlights /\ [][HighlightsNext]_vars

(***************************************************************************)
(* The pure functions applied to arguments drawn from bounded sets:        *)
(* getRoadType (storage.ts 218-240), expandBounds (useMapData.ts 15-35),   *)
(* calculateRoadLength (storage.ts 30-38) and the parsing of an Overpass   *)
(* answer (storage.ts 165-204).                                            *)
(***************************************************************************)
HighwayTypes ==
    {"motorway", "trunk", "primary", "secondary", "tertiary", "residential",
     "service", "footway", "path", "cycleway",
     "Motorway", "MOTORWAY", "Primary", "Path", "primary_link",
     "unclassified", "bridleway", "Other", ""}

\* boxes whose spans are multiples of 10 millidegrees, one of them flat
\* (south = north) and one a single point (also west = east)
BoxFlat == [swLat |-> 51450, swLng |-> -200, neLat |-> 51450, neLng |-> -190]
BoxPoint == [swLat |-> 51450, swLng |-> -200, neLat |-> 51450, neLng |-> -200]

PureBoxes == {BoxScenario, ViewBorough, BoxFlat, BoxPoint}

\* 20 is the default of the parameter (line 15), 50 and 100 are what the
\* hook passes (lines 92, 94)
Percents == {-100, -50, 0, 20, 50, 100}

Points == {<<51455, -195>>, <<51457, -193>>, <<51462, -188>>}

RECURSIVE SeqsUpTo(_, _)
SeqsUpTo(S, n) ==
    IF n = 0 THEN {<<>>}
    ELSE LET shorter == SeqsUpTo(S, n - 1)
         IN  shorter \cup {Append(q, x) : q \in shorter, x \in S}

PureArgs ==
    {[fn |-> "getRoadType", highwayType |-> h] : h \in HighwayTypes}
    \cup {[fn |-> "expandBounds", bounds |-> b, bufferPercent |-> p] :
              b \in PureBoxes, p \in Percents}
    \cup {[fn |-> "calculateRoadLength", coordinates |-> c] :
              c \in SeqsUpTo(Points, MaxPoints)}
    \cup {[fn |-> "parse", elements |-> d] : d \in Responses}

ApplyGetRoadType ==
    /\ args.fn = "getRoadType"
    /\ yielded = NoResult
    /\ yielded' = [fn |-> "getRoadType",
                   roadType |-> getRoadType(args.highwayType)]
    /\ UNCHANGED args

ApplyExpandBounds ==
    \* no path of expandBounds throws
    /\ args.fn = "expandBounds"
    /\ yielded = NoResult
    /\ yielded' = [fn |-> "expandBounds", threw |-> FALSE,
                   expanded |-> expandBounds(args.bounds, args.bufferPercent)]
    /\ UNCHANGED args

ApplyCalculateRoadLength ==
    /\ args.fn = "calculateRoadLength"
    /\ yielded = NoResult
    /\ yielded' = [fn |-> "calculateRoadLength",
                   length |-> calculateRoadLength(args.coordinates)]
    /\ UNCHANGED args

ApplyParse ==
    \* lines 165-204 on the body of a successful answer
    /\ args.fn = "parse"
    /\ yielded = NoResult
    /\ yielded' = [fn |-> "parse", threw |-> FALSE,
                   roads |-> ParseRoads(args.elements)]
    /\ UNCHANGED args

PureNext ==
    /\ \/ ApplyGetRoadType
       \/ ApplyExpandBounds
       \/ ApplyCalculateRoadLength
       \/ ApplyParse
    /\ UNCHANGED <<serverVars, hookVars, highlightVars, requestLog, exchange,
                   homeVars>>

InitPure ==
    /\ StorageInit /\ HookInit("client") /\ HighlightsInit /\ HomeInit
    /\ args \in PureArgs
    /\ yielded = NoResult

SpecPure == InitPure /\ [][PureNext]_vars

(***************************************************************************)
(* The Home component (part_007).  The roads offered for a click are those *)
(* MapContainer draws; a road's key is its id.                             *)
(***************************************************************************)
HomeRoads ==
    {[id |-> "road-1", length |-> 301],
     [id |-> "road-2", length |-> 700],
     [id |-> "road-3", length |-> 1030],
     [id |-> "road-4", length |-> 512]}

SelectedIds(roads) == {roads[i].id : i \in 1..Len(roads)}

\* delete newSelectedRoads[road.id] (line 66)
Without(roads, id) == SelectSeq(roads, LAMBDA r : r.id # id)

RECURSIVE ReduceLength(_, _)
ReduceLength(roads, n) ==
    \* Object.values(selectedRoads).reduce(..., 0) over the first n values
    IF n = 0 THEN 0
    ELSE FloatAdd(ReduceLength(roads, n - 1), roads[n].length)

LengthOfAllButLast(roads) ==
    \* a variant that leaves the last value out of the sum
    IF roads = <<>> THEN 0 ELSE ReduceLength(roads, Len(roads) - 1)

LengthOf(roads) == ReduceLength(roads, Len(roads))

\* ControlPanel.tsx 40
selectedCount == Len(selectedRoads)

\* the effect that is due runs before the next render
Flushed == IF lengthEffect.due THEN LengthOf(lengthEffect.selectedRoads)
           ELSE totalLength

ToggledAddingOnly(roads, road) ==
    \* a variant that never deselects
    IF road.id \in SelectedIds(roads) THEN roads ELSE Append(roads, road)

Toggled(roads, road) ==
    \* lines 62-72
    IF road.id \in SelectedIds(roads) THEN Without(roads, road.id)
    ELSE Append(roads, road)

(***************************************************************************)
(* A road layer is clicked (part_007 59-76).                               *)
(***************************************************************************)
handleRoadSelect(road) ==
    /\ selectedRoads' = Toggled(selectedRoads, road)
    /\ selectedRoad' = road
    /\ totalLength' = Flushed
    /\ lengthEffect' = [due |-> TRUE, selectedRoads |-> selectedRoads']
    /\ lastClick' = [op |-> "road", road |-> road,
                     before |-> SelectedIds(selectedRoads)]

\* handleRoadSelect(null) returns at line 60
handleRoadSelectNull ==
    /\ lastClick' = [op |-> "null", before |-> SelectedIds(selectedRoads)]
    /\ UNCHANGED <<selectedRoads, selectedRoad, totalLength, lengthEffect>>

(***************************************************************************)
(* Clear Selection is pressed (part_007 92-95); the button is disabled     *)
(* while nothing is selected (ControlPanel.tsx 95).                        *)
(***************************************************************************)
handleClearSelection ==
    /\ selectedCount # 0
    /\ selectedRoads' = <<>>
    /\ selectedRoad' = None
    /\ totalLength' = Flushed
    /\ lengthEffect' = [due |-> TRUE, selectedRoads |-> <<>>]
    /\ lastClick' = [op |-> "clear", before |-> SelectedIds(selectedRoads)]

(***************************************************************************)
(* The effect of lines 53-56 runs.                                         *)
(***************************************************************************)
CalculateTotalLength ==
    /\ lengthEffect.due
    /\ totalLength' = LengthOf(lengthEffect.selectedRoads)
    /\ lengthEffect' = NoEffect
    /\ UNCHANGED <<selectedRoads, selectedRoad, lastClick>>

HomeNext ==
    /\ \/ \E road \in HomeRoads : handleRoadSelect(road)
       \/ handleRoadSelectNull
       \/ handleClearSelection
       \/ CalculateTotalLength
    /\ UNCHANGED <<serverVars, hookVars, highlightVars, requestLog, exchange,
                   pureVars>>

InitHome ==
    StorageInit /\ HookInit("client") /\ HighlightsInit /\ PureIdle /\ HomeInit

SpecHome == InitHome /\ [][HomeNext]_vars



(***************************************************************************)
(* Properties of the cache and coordinator layer.                          *)
(***************************************************************************)

\* lastReturn and the call before it were made one after the other, with no
\* other call in between or alongside, and their boxes round to one key.
SequentialSameKey ==
    /\ lastReturn.n # 0
    /\ lastReturn.pred.n # 0
    /\ ~lastReturn.overlapped
    /\ lastReturn.pred.key = lastReturn.key

\* C1 as stated: of two sequential calls whose coordinates round to the same
\* key, the second returns the road sequence of the first and sends no
\* upstream request, whatever became of the first.
C1_MemoizationAsStated ==
    SequentialSameKey =>
        /\ lastReturn.ret = lastReturn.pred.ret
        /\ lastReturn.path \notin {"fetch", "error"}

\* C1 amended: of two sequential calls whose coordinates round to the same
\* key, if the first returned from an exact hit or from a successful fetch
\* (so that the key is cached when it returns), the second returns the same
\* road sequence and sends no upstream request.
C1_Memoization ==
    (SequentialSameKey /\ lastReturn.pred.path \in {"exact", "fetch"}) =>
        /\ lastReturn.ret = lastReturn.pred.ret
        /\ lastReturn.path \notin {"fetch", "error"}

C1_Witness ==
    /\ SequentialSameKey
    /\ lastReturn.pred.path = "fetch"
    /\ lastReturn.pred.box # lastReturn.box
    /\ lastReturn.path = "exact"
    /\ lastReturn.ret # <<>>

\* The step is a call of getRoadsByBounds(b).
CallOf(b) == nCalls' = nCalls + 1 /\ lastCall'.box = b

\* The call made in this step has returned in this step.
ReturnedAtOnce == lastReturn'.n = nCalls'

\* Entry i of the cache is stored under the two-decimal rounding of b.
StoredUnderKeyOf(cache, i, b) ==
    /\ cache[i].key[1] * 10 - b.swLat \in -5..5
    /\ cache[i].key[2] * 10 - b.swLng \in -5..5
    /\ cache[i].key[3] * 10 - b.neLat \in -5..5
    /\ cache[i].key[4] * 10 - b.neLng \in -5..5

\* Entry i of the cache contains b within 0.01 degree on every edge.
ContainsWithinMargin(cache, i, b) ==
    /\ b.swLat >= cache[i].key[1] * 10 - 10
    /\ b.swLng >= cache[i].key[2] * 10 - 10
    /\ b.neLat <= cache[i].key[3] * 10 + 10
    /\ b.neLng <= cache[i].key[4] * 10 + 10

\* C2: a call whose rounded key is in the road cache returns the list stored
\* under that key, also when another entry contains the box, sends no
\* upstream request and leaves the cache as it is.
C2_ExactHitFirst ==
    [][\A b \in ReqBoxes : \A i \in 1..Len(roadCache) :
          (CallOf(b) /\ StoredUnderKeyOf(roadCache, i, b)) =>
              /\ ReturnedAtOnce
              /\ lastReturn'.ret = roadCache[i].roads
              /\ upstreamRequests' = upstreamRequests
              /\ roadCache' = roadCache]_vars

C2_Witness ==
    /\ lastReturn.n # 0
    /\ lastReturn.n = nCalls
    /\ lastReturn.path = "exact"
    /\ \E i, j \in 1..Len(roadCache) :
          /\ i < j
          /\ StoredUnderKeyOf(roadCache, j, lastReturn.box)
          /\ ContainsWithinMargin(roadCache, i, lastReturn.box)
          /\ roadCache[i].roads # roadCache[j].roads
          /\ lastReturn.ret = roadCache[j].roads

\* C3: a call whose key is not cached while some entry contains its box
\* within 0.01 degree returns the roads of such an entry, sends no upstream
\* request and adds nothing to the cache.
C3_ContainmentHit ==
    [][\A b \in ReqBoxes :
          (/\ CallOf(b)
           /\ \A i \in 1..Len(roadCache) : ~StoredUnderKeyOf(roadCache, i, b)
           /\ \E i \in 1..Len(roadCache) : ContainsWithinMargin(roadCache, i, b)) =>
              /\ ReturnedAtOnce
              /\ \E i \in 1..Len(roadCache) :
                    /\ ContainsWithinMargin(roadCache, i, b)
                    /\ lastReturn'.ret = roadCache[i].roads
              /\ upstreamRequests' = upstreamRequests
              /\ roadCache' = roadCache]_vars

C3_Witness ==
    /\ lastReturn.n # 0
    /\ lastReturn.n = nCalls
    /\ lastReturn.path = "overlap"
    /\ lastReturn.ret # <<>>
    /\ \A i \in 1..Len(roadCache) : ~StoredUnderKeyOf(roadCache, i, lastReturn.box)
    /\ \E i \in 1..Len(roadCache) : ContainsWithinMargin(roadCache, i, lastReturn.box)

\* The suspended call of slot s returns in this step.
Returns(s) == calls[s].pc # "idle" /\ calls'[s].pc = "idle"

\* C4: when the upstream request of a call succeeds, the call returns the
\* parsed road list and that list is stored under the rounded key of the
\* requested box; the cache has that key and the keys it had, and no other
\* entry changes.
C4_FetchStores ==
    [][\A s \in Slots :
          (Returns(s) /\ lastReturn'.path = "fetch") =>
              /\ lastReturn'.box = calls[s].box
              /\ \E i \in 1..Len(roadCache') :
                    /\ StoredUnderKeyOf(roadCache', i, calls[s].box)
                    /\ roadCache'[i].roads = lastReturn'.ret
                    /\ \A j \in 1..Len(roadCache') :
                          j # i => /\ roadCache'[j].key # roadCache'[i].key
                                   /\ j <= Len(roadCache)
                                   /\ roadCache'[j] = roadCache[j]
                    /\ Len(roadCache') \in {Len(roadCache), i}]_vars

C4_Witness ==
    /\ lastReturn.n # 0
    /\ lastReturn.path = "fetch"
    /\ lastReturn.ret # <<>>
    /\ Len(roadCache) >= 2
    /\ roadCache[Len(roadCache)].roads = lastReturn.ret
    /\ StoredUnderKeyOf(roadCache, Len(roadCache), lastReturn.box)
    /\ lastReturn.box = BoxSameKey

\* C5: when the upstream request of a call fails (network error, abort,
\* status, body), the call returns the empty sequence and the road cache is
\* unchanged, so the key of the failed call is not cached by it.
C5_FailSoft ==
    [][\A s \in Slots :
          (Returns(s) /\ lastReturn'.path = "error") =>
              /\ lastReturn'.box = calls[s].box
              /\ lastReturn'.ret = <<>>
              /\ roadCache' = roadCache]_vars

C5_Witness ==
    /\ lastReturn.n # 0
    /\ lastReturn.path = "error"
    /\ lastReturn.ret = <<>>
    /\ roadCache # <<>>
    /\ \A i \in 1..Len(roadCache) : ~StoredUnderKeyOf(roadCache, i, lastReturn.box)

(***************************************************************************)
(* Properties of the request throttling layer.                             *)
(***************************************************************************)

\* C7: no window of 10 seconds holds more than 3 applies of one session
\* (applyAges holds the applies of the last 10 seconds, both ends included).
C7_RateLimit == Len(applyAges) <= 3

C7_Witness ==
    /\ Len(applyAges) = 3
    /\ queryCountRef = 3
    /\ \E t \in applyTimers : t.left > 1

\* The step is an apply: the timer of line 89 fires.
Applied == queryCountRef' = queryCountRef + 1

\* C8: at most one apply is pending at any time, and an apply that fires
\* applies the bounds value scheduled last; a value whose timer was replaced
\* or cancelled is never applied.
C8_LastWriteWins ==
    [][/\ Cardinality(applyTimers') <= 1
       /\ Applied => (lastScheduled # None /\ debouncedBounds' = lastScheduled)]_vars

C8_Witness ==
    /\ burst.ok
    /\ burst.first # None
    /\ nApplies = 1
    /\ applyTimers = {}
    /\ debouncedBounds # None
    /\ debouncedBounds # burst.first

\* The step is a change of the raw bounds to b.
ChangedTo(b) == lastEvent'.n = lastEvent.n + 1 /\ lastEvent'.bounds = b

\* inner lies within outer when each edge of outer is moved outwards by a
\* fifth of its own magnitude (tolerance 0.8); both sides are times 5.
WithinFifth(inner, outer) ==
    /\ 5 * inner.swLat >= 5 * outer.swLat - Abs(outer.swLat)
    /\ 5 * inner.swLng >= 5 * outer.swLng - Abs(outer.swLng)
    /\ 5 * inner.neLat <= 5 * outer.neLat + Abs(outer.neLat)
    /\ 5 * inner.neLng <= 5 * outer.neLng + Abs(outer.neLng)

\* C9: a raw bounds value that lies within lastAppliedExpandedBounds by the
\* containment test is ignored: no apply is scheduled for it, and
\* lastAppliedExpandedBounds, the active query bounds, the query counter and
\* the time of the last query stay as they are.
C9_ContainedIsIgnored ==
    [][\A b \in RawBounds :
          (/\ ChangedTo(b)
           /\ lastQueriedBoundsRef # None
           /\ WithinFifth(b, lastQueriedBoundsRef)) =>
              /\ applyTimers' \subseteq applyTimers
              /\ lastQueriedBoundsRef' = lastQueriedBoundsRef
              /\ expandedBounds' = expandedBounds
              /\ queryCountRef' = queryCountRef
              /\ sinceLastQuery' = sinceLastQuery]_vars

C9_Witness ==
    /\ lastEvent.n > 0
    /\ lastEvent.did = "ignored"
    /\ lastQueriedBoundsRef # None
    /\ WithinFifth(lastEvent.bounds, lastQueriedBoundsRef)
    /\ ~Geometric(lastEvent.bounds, lastQueriedBoundsRef)
    /\ queryCountRef > 0
    /\ applyTimers = {}

\* C10 as stated: 5 raw bounds changes within 200 ms, all inside the
\* 100%-expanded first box, result in at most 1 applied bounds value.
C10_BurstAsStated == (lastEvent.n = 5 /\ burst.ok) => nApplies <= 1

\* C10 amended: such a burst results in at most 1 applied value in the hook
\* that debounces the first bounds by 500 ms (src/hooks), and in at most 2
\* in the client hook, which applies the first bounds after 0 ms with a 50%
\* buffer: that apply and at most one more, 500 ms after the burst.
C10_Burst ==
    (lastEvent.n = 5 /\ burst.ok) =>
        nApplies <= (IF variant = "src" THEN 1 ELSE 2)

C10_Witness ==
    /\ lastEvent.n = 5
    /\ burst.ok
    /\ variant = "client"
    /\ nApplies = 2
    /\ applyTimers = {}

(***************************************************************************)
(* The highlight store and its routes: claims C11 to C14, C17 and C18,     *)
(* checked under SpecHighlights.                                           *)
(***************************************************************************)

\* C11: the k-th saveRoadHighlight call that succeeds gets the id k, so the
\* ids grow by one from save to save and no id is given twice, whatever
\* deletes came in between.
C11_SequentialIds ==
    \A k \in 1..Len(savedLog) : savedLog[k].roadHighlight.id = k

C11_Witness ==
    \* a save made after a delete took a record away
    /\ lastOp.op = "save"
    /\ Len(savedLog) >= 2
    /\ deleted # {}
    /\ Len(highlights) < Len(savedLog)

Untouched(id) ==
    \* every other id keeps its record and its place
    /\ \A j \in ProbeIds \ {id} :
           getRoadHighlight(highlights', j) = getRoadHighlight(highlights, j)
    /\ Len(highlights') =
           Len(highlights) - (IF MapHas(highlights, id) THEN 1 ELSE 0)

\* C12: deleteRoadHighlight(id) returns true exactly when a record is stored
\* under id at the call and then removes that record and no other; it
\* returns false and changes nothing otherwise.  An id answers true at
\* most once.
C12_Delete ==
    [][lastOp'.op = "delete" =>
          LET id == lastOp'.id
          IN /\ lastOp'.removed = MapHas(highlights, id)
             /\ ~MapHas(highlights', id)
             /\ Untouched(id)
             /\ ~MapHas(highlights, id) => highlights' = highlights
             /\ lastOp'.removed => id \notin deleted
             /\ currentId' = currentId]_vars

C12_Witness ==
    \* a second delete of an id that was stored: it answers false
    /\ lastOp.op = "delete"
    /\ lastOp.id \in deleted
    /\ ~lastOp.removed
    /\ Len(highlights) >= 1

OwnFields(highlight) == DOMAIN highlight \ {"id", "createdAt"}

\* C13: as long as the id a save returned has not been deleted,
\* getRoadHighlight of that id returns the record the save returned: every
\* field of the argument as it was given, with the id and the createdAt
\* the store took from its counter and its clock, not the argument's.
C13_RoundTrip ==
    \A k \in 1..Len(savedLog) :
        LET e == savedLog[k]
            r == e.roadHighlight
            g == getRoadHighlight(highlights, r.id)
        IN r.id \notin deleted =>
               /\ g = r
               /\ \A f \in OwnFields(e.highlight) : g[f] = e.highlight[f]
               /\ DOMAIN g = OwnFields(e.highlight) \cup {"id", "createdAt"}
               /\ g.id = k
               /\ g.createdAt = e.at

C13_Witness ==
    \* a record read back whose argument had an id and a createdAt of its own
    /\ lastOp.op = "get"
    /\ lastOp.found # Undefined
    /\ \E k \in 1..Len(savedLog) :
           /\ savedLog[k].roadHighlight = lastOp.found
           /\ "id" \in DOMAIN savedLog[k].highlight
           /\ savedLog[k].highlight.id # k
           /\ savedLog[k].highlight.createdAt # savedLog[k].at

Live ==
    {savedLog[k].roadHighlight : k \in {j \in 1..Len(savedLog) :
                                           savedLog[j].roadHighlight.id \notin deleted}}

\* C14: getRoadHighlights returns the records saved and not deleted since,
\* each of them once and no other, and getRoadHighlight returns undefined
\* for every id that is not the id of one of them.
C14_ListIsLive ==
    LET list == getRoadHighlights(highlights)
    IN /\ {list[i] : i \in 1..Len(list)} = Live
       /\ Len(list) = Cardinality(Live)
       /\ \A id \in ProbeIds :
              id \notin {r.id : r \in Live} =>
                  getRoadHighlight(highlights, id) = Undefined

C14_Witness ==
    \* a list read after two saves and a delete
    /\ lastOp.op = "list"
    /\ Len(lastOp.list) >= 1
    /\ deleted # {}
    /\ Len(savedLog) >= 2

IsPost == exchange'.route = "POST /api/highlights"

\* C17: POST /api/highlights answers 201 with the record stored exactly when
\* the body passes the validation; it answers 400 with the validation
\* errors otherwise, and then the store holds what it held and the next id
\* is the one it was.
C17_PostHighlights ==
    [][IsPost =>
          LET result == safeParse(exchange'.body)
              json == exchange'.json
          IN IF result.success
             THEN /\ exchange'.status = 201
                  /\ Len(highlights') = Len(highlights) + 1
                  /\ getRoadHighlight(highlights', json.id) = json
                  /\ json.id = currentId
                  /\ currentId' = currentId + 1
                  /\ \A f \in SchemaKeys : json[f] = exchange'.body.fields[f]
             ELSE /\ exchange'.status = 400
                  /\ json.errors # {}
                  /\ highlights' = highlights
                  /\ currentId' = currentId]_vars

C17_Witness ==
    \* a body without a name refused when a record was already stored
    /\ exchange.route = "POST /api/highlights"
    /\ exchange.status = 400
    /\ "name" \in exchange.json.errors
    /\ Len(highlights) >= 1

IsDigits(s) == s # <<>> /\ \A i \in 1..Len(s) : DigitValue(s[i]) >= 0

IsInteger(s) ==
    \* the text of a decimal integer, with or without a sign
    IF s # <<>> /\ Head(s) \in {"-", "+"} THEN IsDigits(Tail(s)) ELSE IsDigits(s)

\* C18: DELETE /api/highlights/:id answers 200 exactly when a highlight of
\* that id was stored and is removed, 400 when the id is not an integer,
\* the store left as it was, and 404 when the id is an integer no highlight
\* is stored under.
C18_DeleteRouteAsStated ==
    [][exchange'.route = "DELETE /api/highlights/:id" =>
          LET param == exchange'.param
              id == parseInt(param).value
          IN IF ~IsInteger(param)
             THEN exchange'.status = 400 /\ highlights' = highlights
             ELSE IF MapHas(highlights, id)
                  THEN exchange'.status = 200 /\ ~MapHas(highlights', id)
                  ELSE exchange'.status = 404 /\ highlights' = highlights]_vars

(***************************************************************************)
(* The route GET /api/roads and the timeout of the upstream request:       *)
(* claims C15, C16 and C19, checked under SpecRoads.                       *)
(***************************************************************************)
IsNumberText(s) ==
    \* the text of a decimal number and nothing else
    LET u == IF s # <<>> /\ Head(s) \in {"-", "+"} THEN Tail(s) ELSE s
        whole == DigitPrefix(u)
        after == SubSeq(u, Len(whole) + 1, Len(u))
    IN IF after = <<>> THEN whole # <<>>
       ELSE /\ Head(after) = "."
            /\ DigitPrefix(Tail(after)) = Tail(after)
            /\ whole # <<>> \/ Tail(after) # <<>>

WellFormed(query) ==
    \A k \in CoordKeys : k \in DOMAIN query /\ IsNumberText(query[k])

IsRoadsRequest ==
    \* this step is the arrival of a request at the route
    \/ nCalls' = nCalls + 1
    \/ /\ exchange'.route = "GET /api/roads"
       /\ exchange'.status = 400
       /\ exchange' # exchange

\* C15: GET /api/roads answers 400 with a message whenever one of swLat,
\* swLng, neLat, neLng is missing or is not a number, and then
\* getRoadsByBounds is not called and no upstream request is sent; every
\* other request is passed on and answered 200.
C15_RoadsParamsAsStated ==
    [][IsRoadsRequest =>
          IF WellFormed(exchange'.query)
          THEN nCalls' = nCalls + 1 /\ exchange'.status \in {0, 200}
          ELSE /\ exchange'.status = 400
               /\ "message" \in DOMAIN exchange'.json
               /\ nCalls' = nCalls
               /\ upstreamRequests' = upstreamRequests
               /\ calls' = calls
               /\ roadCache' = roadCache]_vars

\* C16: when the upstream request of a call made for GET /api/roads fails,
\* or is aborted at the timeout, the response to that request is 200 with
\* an empty roads array; the route never answers 500.
C16_FailedFetchIs200 ==
    [][/\ exchange'.route = "GET /api/roads" => exchange'.status # 500
       /\ \A s \in Slots :
              (Returns(s) /\ lastReturn'.path = "error") =>
                  /\ exchange'.route = "GET /api/roads"
                  /\ exchange'.n = calls[s].n
                  /\ exchange'.query = requestLog[calls[s].n]
                  /\ exchange'.status = 200
                  /\ exchange'.json.roads = <<>>]_vars

C16_Witness ==
    \* the response to a request whose fetch failed when the timeout was up
    /\ exchange.route = "GET /api/roads"
    /\ exchange.status = 200
    /\ exchange.json.roads = <<>>
    /\ lastReturn.path = "error"
    /\ lastReturn.n = exchange.n
    /\ lastReturn.elapsed = FetchTimeoutMs
    /\ WellFormed(exchange.query)

\* C19: no getRoadsByBounds call stays suspended for longer than the
\* timeout of 15 seconds: a call whose upstream request has not been
\* answered in full by then is cancelled and returns.
C19_BoundedSuspensionAsStated ==
    \A s \in Slots :
        calls[s].pc # "idle" => calls[s].elapsed <= FetchTimeoutMs

(***************************************************************************)
(* The life of a road cache entry: claim C20, checked under Spec.          *)
(***************************************************************************)

\* C20: a key of the road cache stays in it, so the keys only grow; an
\* entry is made, or its road list replaced, only by a call whose fetch
\* succeeded, and a road list that is stored is replaced only by a call
\* that overlapped another call.
C20_EntriesNeverExpire ==
    [][/\ \A i \in 1..Len(roadCache) :
              /\ i <= Len(roadCache')
              /\ roadCache'[i].key = roadCache[i].key
              /\ roadCache'[i].roads # roadCache[i].roads =>
                     lastReturn'.overlapped
       /\ roadCache' # roadCache =>
              /\ \E s \in Slots : Returns(s)
              /\ lastReturn'.path = "fetch"
              /\ Len(roadCache') <= Len(roadCache) + 1]_vars

C20_Witness ==
    \* the first entry served again after another was stored behind it
    /\ Len(roadCache) >= 2
    /\ lastReturn.n = nCalls
    /\ lastReturn.path = "exact"
    /\ lastReturn.key = roadCache[1].key
    /\ lastReturn.ret = roadCache[1].roads

(***************************************************************************)
(* Properties of the pure functions.                                       *)
(***************************************************************************)
Categories ==
    {"Motorway", "Primary", "Secondary", "Tertiary", "Residential",
     "Service", "Path", "Other"}

SourceVocabulary ==
    {"motorway", "trunk", "primary", "secondary", "tertiary", "residential",
     "service", "footway", "path", "cycleway"}

\* C21: getRoadType returns one of the eight categories for every string,
\* and Other for every string outside the source vocabulary, a word of the
\* vocabulary in another letter case included.
C21_ClassifyTotal ==
    yielded.fn = "getRoadType" =>
        /\ yielded.roadType \in Categories
        /\ args.highwayType \notin SourceVocabulary =>
               yielded.roadType = "Other"
        /\ args.highwayType \in SourceVocabulary =>
               yielded.roadType # "Other"

C21_Witness ==
    /\ yielded.fn = "getRoadType"
    /\ args.highwayType = "MOTORWAY"
    /\ yielded.roadType = "Other"

\* the box has its south edge at or below its north edge and its west edge
\* at or left of its east edge
Ordered(box) == box.swLat <= box.neLat /\ box.swLng <= box.neLng

Expanded == yielded.fn = "expandBounds" /\ Ordered(args.bounds)

Distance(p, q) == calculateDistance(p[1], p[2], q[1], q[2])

\* the sum of the distances of the first n pairs of consecutive points,
\* added up from the first pair on with the addition of the source
RECURSIVE SumOfLegs(_, _)
SumOfLegs(points, n) ==
    IF n = 0 THEN 0
    ELSE FloatAdd(SumOfLegs(points, n - 1), Distance(points[n], points[n + 1]))

\* the same sum in exact arithmetic
RECURSIVE ExactSumOfLegs(_, _)
ExactSumOfLegs(points, n) ==
    IF n = 0 THEN 0
    ELSE ExactSumOfLegs(points, n - 1) + Distance(points[n], points[n + 1])

Reversed(seq) == [i \in 1..Len(seq) |-> seq[Len(seq) + 1 - i]]

\* C24 as stated: calculateRoadLength returns 0 for a list of 0 or 1
\* points; for a list of 2 or more points it returns the sum of
\* calculateDistance over the pairs of consecutive points, and the same
\* value for the list reversed, calculateDistance being symmetric.
C24_PathLengthAsStated ==
    yielded.fn = "calculateRoadLength" =>
        LET points == args.coordinates
        IN  /\ \A p, q \in Points : Distance(p, q) = Distance(q, p)
            /\ Len(points) <= 1 => yielded.length = 0
            /\ Len(points) >= 2 =>
                   /\ yielded.length = SumOfLegs(points, Len(points) - 1)
                   /\ yielded.length = calculateRoadLength(Reversed(points))

\* C24 amended: calculateRoadLength returns 0 for a list of 0 or 1 points;
\* for a list of 2 or more points it returns the sum of calculateDistance
\* over the pairs of consecutive points, added up in floating point from
\* the first pair on.  That value is the value for the reversed list when
\* the list has at most 3 points; for a longer list the two are sums of the
\* same distances in opposite orders and equal up to the rounding of the
\* additions only: each lies within one half spacing of values per
\* rounded addition of the exact sum.
C24_PathLength ==
    yielded.fn = "calculateRoadLength" =>
        LET points == args.coordinates
            backwards == calculateRoadLength(Reversed(points))
            exact == ExactSumOfLegs(points, Len(points) - 1)
            additions == Len(points) - 2
        IN  /\ \A p, q \in Points : Distance(p, q) = Distance(q, p)
            /\ Len(points) <= 1 => yielded.length = 0
            /\ Len(points) >= 2 =>
                   /\ yielded.length = SumOfLegs(points, Len(points) - 1)
                   /\ Len(points) <= 3 => yielded.length = backwards
                   /\ 2 * Abs(yielded.length - exact)
                         <= additions * Spacing(yielded.length)
                   /\ 2 * Abs(backwards - exact)
                         <= additions * Spacing(backwards)

\* a list of 4 points whose length differs from that of its reversal
C24_Witness ==
    /\ yielded.fn = "calculateRoadLength"
    /\ Len(args.coordinates) = 4
    /\ yielded.length # calculateRoadLength(Reversed(args.coordinates))
    /\ ExactSumOfLegs(args.coordinates, 3) = 262 + 917 + 655

(***************************************************************************)
(* Properties of the parsing of an answer.                                 *)
(***************************************************************************)
\* the node elements of the answer that carry the id
NodesWithId(elements, id) ==
    {i \in 1..Len(elements) :
        elements[i].type = "node" /\ elements[i].id = id}

\* the way's node list in order, without the ids no node element carries,
\* each id replaced by the latitude and longitude of its node element
ResolvedPath(elements, way) ==
    LET known == SelectSeq(way.nodes,
                           LAMBDA id : NodesWithId(elements, id) # {})
    IN  [k \in 1..Len(known) |->
            LET e == elements[CHOOSE i \in NodesWithId(elements, known[k]) :
                                 TRUE]
            IN  <<e.lat, e.lon>>]

\* the way elements with a highway tag of which at least one node id is
\* carried by a node element
RoadWays(elements) ==
    {i \in 1..Len(elements) :
        /\ elements[i].type = "way"
        /\ elements[i].hasTags
        /\ elements[i].highway # ""
        /\ \E k \in 1..Len(elements[i].nodes) :
               NodesWithId(elements, elements[i].nodes[k]) # {}}

\* C30: the parsing of an answer turns a way element into a Road if and
\* only if it has a highway tag and at least one of its node ids resolves
\* in the node table; the Roads come in the order of their ways, each with
\* a non-empty coordinate list that is the way's node list in order with
\* the unresolved nodes skipped, id "road-<id>", osmId "way/<id>" and the
\* way's name, or 'Unnamed Road' when it has none; an answer without such
\* ways gives the empty list and no error.
C30_Parsing ==
    yielded.fn = "parse" =>
        LET elements == args.elements
            roads == yielded.roads
        IN  /\ ~yielded.threw
            /\ Len(roads) = Cardinality(RoadWays(elements))
            /\ \A i \in RoadWays(elements) :
                   LET before == Cardinality({j \in RoadWays(elements) : j < i})
                       way == elements[i]
                       road == roads[before + 1]
                   IN  /\ road.id = <<"road", way.id>>
                       /\ road.osmId = <<"way", way.id>>
                       /\ road.name = (IF way.name = "" THEN "Unnamed Road"
                                       ELSE way.name)
                       /\ road.coordinates = ResolvedPath(elements, way)
                       /\ road.coordinates # <<>>

\* an answer of which 3 ways become Roads and 3 do not: one has tags but
\* no highway tag, one has no node that resolves, one has no tags
C30_Witness ==
    /\ yielded.fn = "parse"
    /\ args.elements = DataMixed
    /\ Len(yielded.roads) = 3
    /\ yielded.roads[1].name = "Unnamed Road"
    /\ Len(yielded.roads[1].coordinates) = 2
    /\ Cardinality({i \in 1..Len(DataMixed) : DataMixed[i].type = "way"}) = 6

(***************************************************************************)
(* Properties of the applies of the throttle and of its rate limit.        *)
(***************************************************************************)
\* The step is the apply that timer t scheduled: t fires and the apply is
\* entered in the history of applies.
Fires(t) ==
    /\ t \in applyTimers
    /\ applyTimers' = applyTimers \ {t}
    /\ applyAges' = Append(applyAges, 0)

\* C25 as stated: every apply sets the active query bounds to the new
\* bounds expanded by 100%, sets lastQueriedBoundsRef to the same box,
\* raises the query counter by exactly one and takes the current time as
\* the time of the last query.
C25_ApplyAsStated ==
    [][\A t \in applyTimers : Fires(t) =>
          /\ expandedBounds' = expandBounds(t.bounds, 100)
          /\ lastQueriedBoundsRef' = expandedBounds'
          /\ queryCountRef' = queryCountRef + 1
          /\ sinceLastQuery' = 0]_vars

\* C25 amended: every apply sets the active query bounds to the new bounds
\* expanded by 100%, or by 50% when it is the first apply of the session
\* in the client hook; it sets lastQueriedBoundsRef to the same box,
\* raises the query counter by exactly one and takes the current time as
\* the time of the last query.
C25_Apply ==
    [][\A t \in applyTimers : Fires(t) =>
          LET first == variant = "client" /\ lastQueriedBoundsRef = None
          IN  /\ expandedBounds' =
                     expandBounds(t.bounds, IF first THEN 50 ELSE 100)
              /\ lastQueriedBoundsRef' = expandedBounds'
              /\ queryCountRef' = queryCountRef + 1
              /\ sinceLastQuery' = 0]_vars

\* the first apply of the client hook, then a second apply
C25_Witness ==
    /\ variant = "client"
    /\ Len(applyAges) = 2
    /\ queryCountRef = 2
    /\ sinceLastQuery = 0
    /\ debouncedBounds # None
    /\ expandedBounds = expandBounds(debouncedBounds, 100)
    /\ lastQueriedBoundsRef = expandedBounds

\* the applies made less than d ticks ago
AppliesWithin(d) ==
    Cardinality({i \in 1..Len(applyAges) : applyAges[i] < d})

\* the decrements that are due and have not been made yet
Overdue == Cardinality({i \in 1..Len(decayTimers) : decayTimers[i] < 0})

\* C26 as stated: in every reachable state the query counter is the number
\* of applies in the trailing 10 seconds (an apply made exactly 10 seconds
\* ago counting or not), so it is never negative and is 0 once 10 seconds
\* have passed without an apply.
C26_DecayAsStated ==
    /\ queryCountRef >= 0
    /\ AppliesWithin(RateWindow) <= queryCountRef
    /\ queryCountRef <= AppliesWithin(RateWindow + 1)

\* C26 amended: the query counter is the number of applies whose decrement
\* has not been made yet.  It is never negative, never below the number of
\* applies in the trailing 10 seconds, and above it only by applies that
\* are older than 10 seconds and whose decrement is overdue; it is 0 once
\* every decrement has been made.
C26_Decay ==
    /\ queryCountRef >= 0
    /\ queryCountRef = Len(decayTimers)
    /\ AppliesWithin(RateWindow) <= queryCountRef
    /\ queryCountRef <= AppliesWithin(RateWindow + 1) + Overdue

\* an apply older than 10 seconds that the counter still counts
C26_Witness ==
    /\ queryCountRef = 1
    /\ applyAges = <<>>
    /\ Overdue = 1

\* The step schedules an apply with timer t.
Schedules(t) ==
    /\ lastEvent'.n = lastEvent.n + 1
    /\ lastEvent'.did = "scheduled"
    /\ t \in applyTimers'
    /\ t.id = lastEvent'.n

\* C27 as stated: an apply is scheduled 500 ms ahead, or 0 ms ahead for the
\* first bounds of the session; when the counter has reached 3 within the
\* window, it is scheduled 10 s less the time since the start of the
\* window, the oldest apply in it, plus 500 ms ahead.
C27_DelayAsStated ==
    [][\A t \in applyTimers' : Schedules(t) =>
          IF queryCountRef >= RateLimit /\ applyAges # <<>>
          THEN t.left = RateWindow - Head(applyAges) + Debounce
          ELSE IF lastEvent.n = 0 THEN t.left \in {0, Debounce}
          ELSE t.left = Debounce]_vars

\* C27 amended: an apply is scheduled 500 ms ahead; in the client hook it
\* is scheduled 0 ms ahead as long as the session has made no apply yet.
\* When the counter is 3 or more and the last apply was made less than
\* 10 s ago, it is scheduled 10 s less the time since that last apply,
\* plus 500 ms ahead.
C27_Delay ==
    [][\A t \in applyTimers' : Schedules(t) =>
          IF /\ queryCountRef >= RateLimit
             /\ applyAges # <<>>
             /\ applyAges[Len(applyAges)] < RateWindow
          THEN t.left = RateWindow - applyAges[Len(applyAges)] + Debounce
          ELSE IF variant = "client" /\ lastQueriedBoundsRef = None
          THEN t.left = 0
          ELSE t.left = Debounce]_vars

\* an apply scheduled under the rate limit when the oldest apply of the
\* window is older than the last one
C27_Witness ==
    /\ queryCountRef >= RateLimit
    /\ Len(applyAges) >= RateLimit
    /\ Head(applyAges) > applyAges[Len(applyAges)]
    /\ lastEvent.did = "scheduled"
    /\ \E t \in applyTimers :
          /\ t.id = lastEvent.n
          /\ t.left = RateWindow - applyAges[Len(applyAges)] + Debounce

(***************************************************************************)
(* Properties of calls that overlap in time.                               *)
(***************************************************************************)
\* The step is a call of getRoadsByBounds with the box.
Calls(box) == nCalls' = nCalls + 1 /\ lastCall'.box = box

\* the entries of the cache under the key
EntriesOf(cache, k) == {i \in 1..Len(cache) : cache[i].key = k}

\* C28: a call for a key that another call is fetching, and that no cache
\* entry serves, sends an upstream request of its own and suspends.  When a
\* call's fetch succeeds, the cache holds exactly one entry for its key,
\* with the road list of that fetch, so of two overlapping calls that both
\* succeed the one completing last leaves its result; every other entry
\* stays as it is, and no other step changes the cache.
C28_NoCoalescing ==
    [][/\ \A box \in ReqBoxes :
              (/\ Calls(box)
               /\ ~CacheHas(roadCache, CacheKeyOf(box))
               /\ OverlapIndexes(roadCache, box) = {}
               /\ \E o \in InFlight : calls[o].key = CacheKeyOf(box)) =>
                  /\ upstreamRequests' = upstreamRequests + 1
                  /\ \E s \in Slots :
                        /\ calls[s].pc = "idle"
                        /\ calls'[s].pc = "fetching"
                        /\ calls'[s].box = box
       /\ \A s \in Slots :
              (Returns(s) /\ lastReturn'.path = "fetch") =>
                  LET k == calls[s].key
                  IN  /\ Cardinality(EntriesOf(roadCache', k)) = 1
                      /\ CacheGet(roadCache', k) = lastReturn'.ret
                      /\ \A i \in 1..Len(roadCache) :
                            /\ roadCache'[i].key = roadCache[i].key
                            /\ roadCache[i].key # k =>
                                   roadCache'[i] = roadCache[i]
                      /\ Len(roadCache') =
                             Len(roadCache) + (IF CacheHas(roadCache, k)
                                               THEN 0 ELSE 1)
       /\ roadCache' # roadCache =>
              \E s \in Slots : Returns(s) /\ lastReturn'.path = "fetch"]_vars

\* two overlapping calls for one key have both sent a request and both
\* succeeded; the entry holds the list of the one that returned last
C28_Witness ==
    /\ nCalls = 2
    /\ upstreamRequests = 2
    /\ InFlight = {}
    /\ lastReturn.path = "fetch"
    /\ lastReturn.overlapped
    /\ lastReturn.replaced
    /\ Len(roadCache) = 1
    /\ roadCache[1].key = lastReturn.key
    /\ roadCache[1].roads = lastReturn.ret
    /\ lastReturn.ret # <<>>

(***************************************************************************)
(* Properties of the answers served from a containing entry.               *)
(***************************************************************************)
\* what a fetch for the box returns when the call is made with the cache
\* as it is: the parsed answer to the query the call would send
DirectFetch(cache, box) ==
    ParseRoads(Overpass([box |-> ExpandedQueryBox(box),
                         major |-> FetchOnlyMajorRoads(cache, box)]))

Listed(roads) == {roads[i] : i \in 1..Len(roads)}

\* C29 as stated: when a call is served from a containing cache entry, the
\* list it returns has every road that a fetch for the requested box would
\* have returned from the same map data, the minor roads of a box small
\* enough to be fetched with all classes included.
C29_SupersetAsStated ==
    (lastReturn.n # 0 /\ lastReturn.path = "overlap") =>
        Listed(DirectFetch(roadCache, lastReturn.box))
            \subseteq Listed(lastReturn.ret)

(***************************************************************************)
(* Properties of the roads the storage holds and returns.                  *)
(***************************************************************************)
\* the roads of every cache entry and of the list returned last
RoadsHeld ==
    UNION {Listed(roadCache[i].roads) : i \in 1..Len(roadCache)}
    \cup (IF lastReturn.n = 0 THEN {} ELSE Listed(lastReturn.ret))

\* C31: every Road in the road cache or returned by getRoadsByBounds has as
\* its length the sum of calculateDistance over the consecutive points of
\* its own coordinates; the length is not negative and is 0 for a road of
\* one coordinate.
C31_LengthOfOwnCoordinates ==
    \A road \in RoadsHeld :
        /\ Len(road.coordinates) >= 1
        /\ road.length = SumOfLegs(road.coordinates, Len(road.coordinates) - 1)
        /\ road.length >= 0
        /\ Len(road.coordinates) = 1 => road.length = 0

\* a list returned from the cache with a road of one coordinate and a road
\* of two
C31_Witness ==
    /\ lastReturn.n # 0
    /\ lastReturn.path \in {"exact", "overlap"}
    /\ \E road \in Listed(lastReturn.ret) :
          Len(road.coordinates) = 1 /\ road.length = 0
    /\ \E road \in Listed(lastReturn.ret) :
          Len(road.coordinates) = 2 /\ road.length = 655

\* The step is a call with the box that misses the cache and sends the
\* request of slot s.
Sends(s, box) ==
    /\ Calls(box)
    /\ calls[s].pc = "idle"
    /\ calls'[s].pc = "fetching"

\* C32: the request a call sends on a cache miss is restricted to the major
\* classes if and only if the road cache is empty when the call is made or
\* the requested box, widened by 0.01 degree at each edge, spans more than
\* 0.05 degree in latitude or in longitude; in both cases the request is
\* for the widened box.
C32_MajorRoadsOnly ==
    [][\A s \in Slots, box \in WorldBoxes : Sends(s, box) =>
          LET latSpan == (box.neLat + 10) - (box.swLat - 10)
              lngSpan == (box.neLng + 10) - (box.swLng - 10)
              query == calls'[s].query
          IN  /\ query.major <=>
                     (roadCache = <<>> \/ latSpan > 50 \/ lngSpan > 50)
              /\ query.box = [swLat |-> box.swLat - 10, swLng |-> box.swLng - 10,
                              neLat |-> box.neLat + 10, neLng |-> box.neLng + 10]
              /\ upstreamRequests' = upstreamRequests + 1]_vars

\* with an entry cached, a request for all classes and a request for the
\* major classes in flight
C32_Witness ==
    /\ roadCache # <<>>
    /\ \E s \in Slots :
          /\ calls[s].pc = "fetching"
          /\ ~calls[s].query.major
          /\ calls[s].box = BoxApart
    /\ \E s \in Slots :
          /\ calls[s].pc = "fetching"
          /\ calls[s].query.major
          /\ calls[s].n = nCalls

\* The call that returned last was served from the cache while the cache
\* held one entry, stored by the call that returned before it: the entry
\* it was served is the one fetched for lastReturn.pred.box.
ServedEntryOfPred ==
    /\ lastReturn.n # 0
    /\ lastReturn.path \in {"exact", "overlap"}
    /\ lastReturn.pred.n # 0
    /\ lastReturn.pred.path = "fetch"
    /\ Len(roadCache) = 1
    /\ roadCache[1].key = lastReturn.pred.key

\* C33 as stated: a box served from the cache, by its key or by
\* containment, lies inside the region that was queried upstream for the
\* entry it is served: the box the entry was fetched for, widened by 0.01
\* degree at each edge.
C33_CoverageAsStated ==
    ServedEntryOfPred =>
        Geometric(lastReturn.box, ExpandedQueryBox(lastReturn.pred.box))

(***************************************************************************)
(* Properties of the bounds changes the throttle ignores.                  *)
(***************************************************************************)
\* C34 as stated: a raw bounds value that the throttle ignores lies inside
\* lastQueriedBoundsRef geometrically: its south and west edges are not
\* below, its north and east edges not above those of the box queried last.
C34_ViewportCoveredAsStated ==
    [][\A b \in RawBounds :
          (ChangedTo(b) /\ lastEvent'.did = "ignored") =>
              /\ lastQueriedBoundsRef # None
              /\ Geometric(b, lastQueriedBoundsRef)]_vars

\* C35 as stated: a raw bounds value that the throttle ignores leaves a
\* pending apply as it is: the timer of an apply scheduled before stays
\* scheduled.
C35_PendingApplyKeptAsStated ==
    [][\A b \in RawBounds :
          (ChangedTo(b) /\ lastEvent'.did = "ignored") =>
              applyTimers \subseteq applyTimers']_vars


(***************************************************************************)
(* The hook under the browser's scheduling: time passes, and a timer that  *)
(* is due fires (setTimeout, lines 89 and 109).                            *)
(***************************************************************************)
SpecHookFair ==
    /\ InitHook
    /\ [][HookNext]_vars
    /\ WF_vars(Tick)
    /\ WF_vars(\E t \in applyTimers : ApplyBounds(t))
    /\ WF_vars(DecayCount)

\* nothing is pending, and the last bounds value has been applied or is
\* accepted by the containment test against the box applied last
Settled ==
    /\ applyTimers = {}
    /\ lastEvent.n > 0 =>
          /\ lastQueriedBoundsRef # None
          /\ \/ lastQueriedBoundsRef \in
                   {expandBounds(lastEvent.bounds, BufferSize(first)) :
                        first \in BOOLEAN}
             \/ isWithinExistingBounds(lastEvent.bounds, lastQueriedBoundsRef,
                                       DefaultTolerance)

\* C36: once bounds changes have stopped, a hook that stays mounted comes
\* to rest with no apply pending and with the last bounds value either
\* applied (the last queried box is its expansion) or accepted by the
\* containment test against the last queried box; a longer debounce under
\* rate limiting delays the apply of the last value and never drops it.
C36_ThrottleSettles == <>[](mounted => Settled)

C36_Witness ==
    /\ mounted
    /\ lastEvent.n >= 3
    /\ lastEvent.did = "scheduled"
    /\ queryCountRef >= 1
    /\ Settled
    /\ lastQueriedBoundsRef = expandBounds(lastEvent.bounds, 100)


\* the handler for a click on the road has just run
Clicks(road) ==
    /\ lastClick' # lastClick
    /\ lastClick'.op = "road"
    /\ lastClick'.road = road

Clears == lastClick' # lastClick /\ lastClick'.op = "clear"

\* C37: a click on a road selects it when it was not selected and deselects
\* it when it was, and changes the membership of no other road; a second
\* click on the same road, with no other click between the two, gives back
\* the selection there was before the first; Clear Selection leaves nothing
\* selected.
C37_SelectionToggle ==
    [][/\ \A road \in HomeRoads :
             Clicks(road) =>
                /\ SelectedIds(selectedRoads') =
                      IF road.id \in SelectedIds(selectedRoads)
                      THEN SelectedIds(selectedRoads) \ {road.id}
                      ELSE SelectedIds(selectedRoads) \cup {road.id}
                /\ (lastClick.op = "road" /\ lastClick.road = road) =>
                      SelectedIds(selectedRoads') = lastClick.before
       /\ Clears => selectedRoads' = <<>>]_vars

C37_Witness ==
    /\ lastClick.op = "road"
    /\ lastClick.road.id \in lastClick.before
    /\ lastClick.road.id \notin SelectedIds(selectedRoads)
    /\ Len(selectedRoads) >= 2


RECURSIVE SumsOfLengths(_)
SumsOfLengths(roads) ==
    \* the sums of the roads' lengths, the roads taken in any order
    IF roads = {} THEN {0}
    ELSE UNION {{FloatAdd(sum, road.length) :
                     sum \in SumsOfLengths(roads \ {road})} : road \in roads}

SelectedSet == {selectedRoads[i] : i \in 1..Len(selectedRoads)}

\* C38: when no run of the statistics effect is due, the count shown is the
\* number of selected roads and totalLength is the sum of the lengths of
\* the roads selected, and of no others: 0 when none is selected.
C38_Statistics ==
    ~lengthEffect.due =>
        /\ selectedCount = Cardinality(SelectedIds(selectedRoads))
        /\ SelectedSet \subseteq HomeRoads
        /\ totalLength \in SumsOfLengths(SelectedSet)

C38_Witness ==
    /\ ~lengthEffect.due
    /\ lastClick.op = "road"
    /\ lastClick.road.id \in lastClick.before
    /\ selectedCount = 2
    /\ totalLength >= 800

\* C39 as stated: the road of the details panel is null or one of the
\* selected roads.
C39_DetailsRoadSelectedAsStated ==
    selectedRoad = None \/ selectedRoad.id \in SelectedIds(selectedRoads)

=============================================================================
